---- MODULE Spec2Model ----
(***************************************************************************)
(* Model of the effect-execution core of the access-control backend:       *)
(*   - the Result algebra            (core/commands/result.py)             *)
(*   - Command / AsyncCommand / StreamCommand (core/commands/*.py)         *)
(*   - DatabaseCommand.execute_query (core/commands/database_command.py)   *)
(*   - the registration saga         (controllers/api_controller.py)       *)
(* Each component has its own specification over the shared variables; a   *)
(* specification leaves the other components' variables untouched.         *)
(***************************************************************************)
EXTENDS Integers, Sequences, FiniteSets, TLC

VARIABLES
    self_r,        \* result.py: the Result instance an operation is applied to
    op_out,        \* result.py: the operation applied to self_r and its outcome
    cmd_function,  \* command.py: Command._function
    result,        \* command.py: Command.result
    last,          \* the last execute / execute_async call and what its caller got
    gen,           \* stream_command.py: the generator execute_stream returned
    isconnected,   \* database_command.py: DatabaseCommand.isconnected
    active,        \* the callers that use the DatabaseCommand instance
    frames,        \* each caller's execute_query call: where it is suspended
    qm,            \* query_model.py: the QueryModel instance (its fields)
    qcall,         \* query_model.py: the build calls made on qm and their outcome
    route          \* main.py: the route handler being served and its response

resultVars == <<self_r, op_out>>

cmdVars == <<cmd_function, result, last, gen>>

dbVars == <<isconnected, active, frames>>

queryVars == <<qm, qcall>>

routeVars == <<route>>

vars == <<self_r, op_out, cmd_function, result, last, gen, isconnected, active,
          frames, qm, qcall, route>>

(***************************************************************************)
(* Bounds                                                                  *)
(***************************************************************************)
\* payloads are the integers 0..MaxVal
MaxVal == 2

(***************************************************************************)
(* Python values.  Every value is a tagged record so that values of        *)
(* different Python types can be compared.                                 *)
(***************************************************************************)
PyNone == [k |-> "None"]
PyInt(i) == [k |-> "int", i |-> i]
PyBool(b) == [k |-> "bool", b |-> b]
PyStr(s) == [k |-> "str", s |-> s]
PyTuple(t) == [k |-> "tuple", items |-> t]
\* an exception object: its class and its args tuple
PyExc(cls, args) == [k |-> "exc", cls |-> cls, args |-> args]

(***************************************************************************)
(* result.py: the three dataclasses.  A field left out of the constructor  *)
(* call takes the dataclass default.                                       *)
(***************************************************************************)
Success(v, details, log) ==
    [tag |-> "Success", value |-> v, details |-> details, log |-> log]

Failure(v, details, log, error) ==
    [tag |-> "Failure", value |-> v, details |-> details, log |-> log,
     error |-> error]

Running(v) == [tag |-> "Running", value |-> v]

Success1(v) == Success(v, PyNone, PyNone)

Failure1(v) == Failure(v, PyNone, PyNone, FALSE)

is_success(r) == r.tag = "Success"

is_failure(r) == r.tag = "Failure"

is_running(r) == r.tag = "Running"

\* Result.success_or_none
success_or_none(r) == IF r.tag = "Success" THEN r.value ELSE PyNone

\* a plausible slip: the isinstance test names the wrong class
failure_or_none_mut(r) == IF r.tag = "Running" THEN r.value ELSE PyNone

\* Result.failure_or_none
failure_or_none(r) == IF r.tag = "Failure" THEN r.value ELSE PyNone

\* Result.running_or_none
running_or_none(r) == IF r.tag = "Running" THEN r.value ELSE PyNone

(***************************************************************************)
(* Callables handed to fold / map / map_failure.  Apply(f, v) is f(v).     *)
(***************************************************************************)
FuncIds == {"inc", "wrap", "zero"}

Apply(f, v) ==
    CASE f = "inc"  -> IF v.k = "int" THEN PyInt(v.i + 1) ELSE PyTuple(<<v, v>>)
      [] f = "wrap" -> PyTuple(<<v>>)
      [] OTHER      -> PyInt(0)

\* outcome of a call: a returned value or a raised exception, together with
\* the calls it made to the callables it was given, in order
Return(v, called) == [kind |-> "return", value |-> v, called |-> called]

Raise(e, called) == [kind |-> "raise", exc |-> e, called |-> called]

Call(f, v) == <<f, v>>

\* Result.fold; on_running = PyNone is the omitted argument
fold(self, on_success, on_failure, on_running) ==
    IF is_success(self) /\ on_running = PyNone
    THEN Return(Apply(on_success, self.value), <<Call(on_success, self.value)>>)
    ELSE IF is_running(self) /\ on_running # PyNone
    THEN Return(Apply(on_running.f, self.value), <<Call(on_running.f, self.value)>>)
    ELSE IF is_failure(self)
    THEN Return(Apply(on_failure, self.value), <<Call(on_failure, self.value)>>)
    ELSE Raise(PyExc("ValueError", <<PyStr("Unhandled state in fold")>>), <<>>)

\* a plausible slip in map: Running is rebuilt as Success
map_mut(self, func) ==
    IF is_success(self)
    THEN Return(Success1(Apply(func, self.value)), <<Call(func, self.value)>>)
    ELSE IF is_running(self)
    THEN Return(Success1(Apply(func, self.value)), <<Call(func, self.value)>>)
    ELSE Return(Failure1(self.value), <<>>)

\* Result.map
map(self, func) ==
    IF is_success(self)
    THEN Return(Success1(Apply(func, self.value)), <<Call(func, self.value)>>)
    ELSE IF is_running(self)
    THEN Return(Running(Apply(func, self.value)), <<Call(func, self.value)>>)
    ELSE Return(Failure1(self.value), <<>>)

\* Result.map_failure
map_failure(self, func) ==
    IF is_failure(self)
    THEN Return(Failure1(Apply(func, self.value)), <<Call(func, self.value)>>)
    ELSE IF is_running(self)
    THEN Return(Running(self.value), <<>>)
    ELSE Return(Success1(self.value), <<>>)

(***************************************************************************)
(* Specification of the Result algebra: a Result is constructed, then one  *)
(* of fold / map / map_failure is applied to it.                           *)
(***************************************************************************)
Payloads == {PyInt(i) : i \in 0..MaxVal}

OptStr(s) == {PyNone, PyStr(s)}

AllResults ==
    {Success(v, d, l) : v \in Payloads, d \in OptStr("d"), l \in OptStr("l")}
    \cup {Failure(v, dl[1], dl[2], e) :
            v \in Payloads, dl \in OptStr("d") \X OptStr("l"), e \in BOOLEAN}
    \cup {Running(v) : v \in Payloads}

\* a callable argument, as an object distinct from None
Handler(f) == [k |-> "func", f |-> f]

Idle == [op |-> "idle"]

\* callers that may share one DatabaseCommand instance
MaxCallers == 2

Callers == 1..MaxCallers

\* a caller that is not inside execute_query
NoFrame == [pc |-> "idle"]

\* the DatabaseCommand as constructed and not in use
DbIdle ==
    /\ isconnected = FALSE
    /\ active = {}
    /\ frames = [c \in Callers |-> NoFrame]

\* no QueryModel under construction
QueryIdle ==
    /\ qm = PyNone
    /\ qcall = Idle

\* no route handler being served
RouteIdle == route = Idle

ResultInit ==
    /\ self_r \in AllResults
    /\ op_out = Idle
    /\ cmd_function = PyNone
    /\ result = PyNone
    /\ last = Idle
    /\ gen = Idle
    /\ DbIdle
    /\ QueryIdle
    /\ RouteIdle

DoFold ==
    /\ op_out = Idle
    /\ \E hs \in FuncIds, hf \in FuncIds,
          hr \in {PyNone} \cup {Handler(f) : f \in FuncIds} :
          op_out' = [op |-> "fold", on_success |-> hs, on_failure |-> hf,
                     on_running |-> hr, out |-> fold(self_r, hs, hf, hr)]
    /\ UNCHANGED <<self_r, cmdVars, dbVars, queryVars, routeVars>>

DoMap ==
    /\ op_out = Idle
    /\ \E f \in FuncIds :
          op_out' = [op |-> "map", func |-> f, out |-> map(self_r, f)]
    /\ UNCHANGED <<self_r, cmdVars, dbVars, queryVars, routeVars>>

DoMapFailure ==
    /\ op_out = Idle
    /\ \E f \in FuncIds :
          op_out' = [op |-> "map_failure", func |-> f,
                     out |-> map_failure(self_r, f)]
    /\ UNCHANGED <<self_r, cmdVars, dbVars, queryVars, routeVars>>

\* the six read-only properties of a Result, read together
DoInspect ==
    /\ op_out = Idle
    /\ op_out' = [op |-> "inspect",
                  is_success |-> is_success(self_r),
                  is_failure |-> is_failure(self_r),
                  is_running |-> is_running(self_r),
                  success_or_none |-> success_or_none(self_r),
                  failure_or_none |-> failure_or_none(self_r),
                  running_or_none |-> running_or_none(self_r)]
    /\ UNCHANGED <<self_r, cmdVars, dbVars, queryVars, routeVars>>

ResultNext == DoFold \/ DoMap \/ DoMapFailure \/ DoInspect

SpecResult == ResultInit /\ [][ResultNext]_vars

(***************************************************************************)
(* C8 (as claimed): fold returns on_success(value) on Success, on_failure  *)
(* (value) on Failure and on_running(value) on Running when on_running is  *)
(* supplied, whether or not on_running is supplied in the first two cases, *)
(* and raises only for Running with on_running omitted.                    *)
(***************************************************************************)
C8_FoldDispatch ==
    op_out.op = "fold" =>
        LET o == op_out.out
            v == self_r.value
        IN /\ is_success(self_r) =>
                o.kind = "return" /\ o.value = Apply(op_out.on_success, v)
           /\ is_failure(self_r) =>
                o.kind = "return" /\ o.value = Apply(op_out.on_failure, v)
           /\ (is_running(self_r) /\ op_out.on_running # PyNone) =>
                o.kind = "return" /\ o.value = Apply(op_out.on_running.f, v)
           /\ o.kind = "raise" <=>
                (is_running(self_r) /\ op_out.on_running = PyNone)

(***************************************************************************)
(* C9 (as claimed): map(f) on a Failure returns a Failure equal to the     *)
(* original (same value, details, log and error flag) and never calls f.   *)
(***************************************************************************)
C9_MapKeepsFailure ==
    (op_out.op = "map" /\ is_failure(self_r)) =>
        /\ op_out.out.kind = "return"
        /\ op_out.out.value = self_r
        /\ op_out.out.called = <<>>

(***************************************************************************)
(* C10: map and map_failure preserve the variant tag.  map(f) gives        *)
(* Success(f(v)) on Success(v) and Running(f(v)) on Running(v);            *)
(* map_failure(f) gives Failure(f(v)) on Failure(v) and, on Success or     *)
(* Running, the same variant with the same payload without calling f.      *)
(***************************************************************************)
C10_MapPreservesTag ==
    LET o == op_out.out
        v == self_r.value
    IN /\ (op_out.op = "map" /\ ~is_failure(self_r)) =>
            /\ o.kind = "return"
            /\ o.value.tag = self_r.tag
            /\ o.value.value = Apply(op_out.func, v)
       /\ (op_out.op = "map_failure" /\ is_failure(self_r)) =>
            /\ o.kind = "return"
            /\ o.value.tag = "Failure"
            /\ o.value.value = Apply(op_out.func, v)
       /\ (op_out.op = "map_failure" /\ ~is_failure(self_r)) =>
            /\ o.kind = "return"
            /\ o.value.tag = self_r.tag
            /\ o.value.value = v
            /\ o.called = <<>>
       /\ op_out.op \in {"map", "map_failure"} => o.value.tag = self_r.tag

\* map was applied to a Running and returned a Running with f applied
C10_Witness ==
    /\ op_out.op = "map"
    /\ is_running(self_r)
    /\ op_out.out.value = Running(Apply(op_out.func, self_r.value))
    /\ op_out.out.called # <<>>

(***************************************************************************)
(* C11: for every constructed Result exactly one of is_success,            *)
(* is_failure, is_running is true; the matching one of success_or_none,    *)
(* failure_or_none, running_or_none returns the payload and the other two  *)
(* return None.                                                            *)
(***************************************************************************)
C11_ExactlyOneVariant ==
    op_out.op = "inspect" =>
        LET flags == <<op_out.is_success, op_out.is_failure, op_out.is_running>>
            gets == <<op_out.success_or_none, op_out.failure_or_none,
                      op_out.running_or_none>>
        IN /\ Cardinality({i \in 1..3 : flags[i]}) = 1
           /\ \A i \in 1..3 :
                gets[i] = IF flags[i] THEN self_r.value ELSE PyNone
           /\ op_out.is_success <=> self_r.tag = "Success"
           /\ op_out.is_failure <=> self_r.tag = "Failure"
           /\ op_out.is_running <=> self_r.tag = "Running"

\* a Failure was inspected: failure_or_none gave its payload
C11_Witness ==
    /\ op_out.op = "inspect"
    /\ self_r.tag = "Failure"
    /\ op_out.is_failure
    /\ op_out.failure_or_none = self_r.value
    /\ op_out.success_or_none = PyNone

(***************************************************************************)
(* Operations wrapped by a command.  An operation is a callable of one of  *)
(* three Python kinds (plain function, coroutine function, async-generator *)
(* function); `does` is what running its body does.                        *)
(***************************************************************************)
Returns(v) == [kind |-> "return", value |-> v]

Raises(e) == [kind |-> "raise", exc |-> e]

\* subclasses of Exception with zero, one and two constructor arguments
Excs ==
    {PyExc("Exception", <<>>),
     PyExc("ValueError", <<PyStr("boom")>>),
     PyExc("RuntimeError", <<PyStr("db"), PyInt(1)>>)}

\* str(x): a str is itself; BaseException.__str__ gives '' for no args,
\* str(args[0]) for one arg and the text of the args tuple otherwise
PyText(x) == [k |-> "str", s |-> "text", of |-> x]

str(x) ==
    IF x.k = "str" THEN x
    ELSE IF x.k = "exc"
    THEN IF Len(x.args) = 0 THEN PyStr("")
         ELSE IF Len(x.args) = 1
         THEN (IF x.args[1].k = "str" THEN x.args[1] ELSE PyText(x.args[1]))
         ELSE PyText(PyTuple(x.args))
    ELSE PyText(x)

OpResults ==
    {Success1(PyInt(0)), Failure(PyStr("no"), PyStr("d"), PyNone, TRUE),
     Running(PyInt(1))}

Does == {Returns(r) : r \in OpResults} \cup {Raises(e) : e \in Excs}

SyncOp(does) == [k |-> "function", does |-> does]

AsyncOp(does) == [k |-> "coroutine_function", does |-> does]

\* the closure `async def wrapper(): return await function()`
Wrapper(function) == [k |-> "wrapper", function |-> function]

SyncOps == {SyncOp(d) : d \in Does}

AsyncOps == {AsyncOp(d) : d \in Does}

HasKind(x, kind) == "k" \in DOMAIN x /\ x.k = kind

TypeError(what) == PyExc("TypeError", <<PyStr(what)>>)

\* the call expression fn(): a plain function runs; a coroutine function or
\* an async-generator function only builds its coroutine / generator object
CallFn(fn) ==
    IF fn.k = "function" THEN fn.does
    ELSE IF fn.k \in {"coroutine_function", "wrapper"}
    THEN Returns([k |-> "coroutine", fn |-> fn])
    ELSE Returns([k |-> "async_generator", fn |-> fn])

\* `await x` for an x that is not the wrapper's coroutine
AwaitPlain(x) ==
    IF HasKind(x, "coroutine") /\ x.fn.k = "coroutine_function"
    THEN x.fn.does
    ELSE Raises(TypeError("object can't be used in 'await' expression"))

\* `await x`
Await(x) ==
    IF HasKind(x, "coroutine") /\ x.fn.k = "wrapper"
    THEN LET c == CallFn(x.fn.function)
         IN IF c.kind = "raise" THEN c ELSE AwaitPlain(c.value)
    ELSE AwaitPlain(x)

NoFunctionError(cls) ==
    PyExc("ValueError",
          <<PyStr("Nenhuma função fornecida para execução do " \o cls \o ".")>>)

\* what one call of a command method leaves behind: the value or exception
\* its caller gets, the new _function and result fields, and the exception
\* caught by the method's except clause (PyNone when none was caught)
CallEffect(out, fn, res, caught) ==
    [out |-> out, function |-> fn, result |-> res, caught |-> caught]

\* a plausible slip: the except clause is missing, the fault propagates
execute_mut(stored, res, function) ==
    LET fn == IF function # PyNone THEN function ELSE stored
    IN IF fn = PyNone
       THEN CallEffect(Raises(NoFunctionError("Command")), fn, res, PyNone)
       ELSE LET c == CallFn(fn)
            IN IF c.kind = "raise"
               THEN CallEffect(c, fn, res, PyNone)
               ELSE CallEffect(Returns(c.value), fn, c.value, PyNone)

\* a plausible slip: the check for a missing function sits inside the try
\* block, so its ValueError is caught and wrapped like any fault
execute_nofn_mut(stored, res, function) ==
    LET fn == IF function # PyNone THEN function ELSE stored
        c == IF fn = PyNone THEN Raises(NoFunctionError("Command"))
             ELSE CallFn(fn)
    IN IF c.kind = "raise"
       THEN CallEffect(Returns(Failure1(c.exc)), fn, Failure1(c.exc), c.exc)
       ELSE CallEffect(Returns(c.value), fn, c.value, PyNone)

\* Command.execute(function) on an instance whose fields are stored, res
execute(stored, res, function) ==
    LET fn == IF function # PyNone THEN function ELSE stored
    IN IF fn = PyNone
       THEN CallEffect(Raises(NoFunctionError("Command")), fn, res, PyNone)
       ELSE LET c == CallFn(fn)
            IN IF c.kind = "raise"
               THEN CallEffect(Returns(Failure1(c.exc)), fn, Failure1(c.exc), c.exc)
               ELSE CallEffect(Returns(c.value), fn, c.value, PyNone)

\* the Failure AsyncCommand builds in its except clause
AsyncFailure(e) ==
    Failure(str(e), PyTuple(e.args), PyStr("Erro no AsyncCommand"), FALSE)

\* a plausible slip: AsyncCommand wraps the exception object as Command does
execute_async_mut(stored, res, function) ==
    LET fn == IF function # PyNone THEN Wrapper(function) ELSE stored
    IN IF fn = PyNone
       THEN CallEffect(Raises(NoFunctionError("AsyncCommand")), fn, res, PyNone)
       ELSE LET c == CallFn(fn)
                a == IF c.kind = "raise" THEN c ELSE Await(c.value)
            IN IF a.kind = "raise"
               THEN CallEffect(Returns(Failure1(a.exc)), fn, Failure1(a.exc), a.exc)
               ELSE CallEffect(Returns(a.value), fn, a.value, PyNone)

\* a plausible slip: the except clause returns the Failure without storing it
execute_async_nostore_mut(stored, res, function) ==
    LET fn == IF function # PyNone THEN Wrapper(function) ELSE stored
    IN IF fn = PyNone
       THEN CallEffect(Raises(NoFunctionError("AsyncCommand")), fn, res, PyNone)
       ELSE LET c == CallFn(fn)
                a == IF c.kind = "raise" THEN c ELSE Await(c.value)
            IN IF a.kind = "raise"
               THEN CallEffect(Returns(AsyncFailure(a.exc)), fn, res, a.exc)
               ELSE CallEffect(Returns(a.value), fn, a.value, PyNone)

\* AsyncCommand.execute_async(function)
execute_async(stored, res, function) ==
    LET fn == IF function # PyNone THEN Wrapper(function) ELSE stored
    IN IF fn = PyNone
       THEN CallEffect(Raises(NoFunctionError("AsyncCommand")), fn, res, PyNone)
       ELSE LET c == CallFn(fn)
                a == IF c.kind = "raise" THEN c ELSE Await(c.value)
            IN IF a.kind = "raise"
               THEN CallEffect(Returns(AsyncFailure(a.exc)), fn,
                               AsyncFailure(a.exc), a.exc)
               ELSE CallEffect(Returns(a.value), fn, a.value, PyNone)

(***************************************************************************)
(* Producers: the async-generator functions handed to StreamCommand.  A    *)
(* scripted producer yields its items in order and then either finishes    *)
(* or raises.                                                              *)
(***************************************************************************)
\* longest scripted producer
MaxYield == 2

Stop == [kind |-> "stop"]

Yield(r) == [kind |-> "yield", value |-> r]

Seqs(S, n) == UNION {[1..m -> S] : m \in 0..n}

Script(items, ending) == [kind |-> "script", items |-> items, ending |-> ending]

Producer(body) == [k |-> "async_generator_function", body |-> body]

ScriptProducers ==
    {Producer(Script(items, ending)) :
        items \in Seqs(OpResults, MaxYield),
        ending \in {Stop} \cup {Raises(e) : e \in Excs}}

\* one step of a producer's iterator
Step(out, it) == [out |-> out, it |-> it]

\* the iterator of a freshly called scripted producer
ScriptStart == [pos |-> 0]

\* __anext__ on a scripted producer's iterator
ScriptStep(body, it) ==
    IF it.pos < Len(body.items)
    THEN Step(Yield(body.items[it.pos + 1]), [pos |-> it.pos + 1])
    ELSE Step(body.ending, it)

(***************************************************************************)
(* The registration saga, ApiController.register_user_db: an async         *)
(* generator over five collaborator calls.  A world fixes what each        *)
(* collaborator does if it is called; the saga's iterator records the      *)
(* calls made.  pc is the yield the saga is suspended at.                  *)
(***************************************************************************)
Collaborators ==
    <<"user_is_admin", "get_first_face_encoding_async", "insert_user_table",
      "find_user", "insert_historic_table">>

\* what the datastore layer reports on a failed query
DbError == PyStr("Erro ao executar a query")

\* an exception raised inside a collaborator
Boom == PyExc("RuntimeError", <<PyStr("boom")>>)

\* ApiRepository.user_is_admin
AdminOutcomes ==
    {Returns(Success(PyBool(TRUE), PyNone, PyStr("Usuário é um administrador"))),
     Returns(Success(PyBool(FALSE), PyNone, PyStr("Usuario não é um administrador"))),
     Returns(Failure(PyStr("Erro ao verificar permissões do usuário"), DbError,
                     PyNone, FALSE)),
     Raises(Boom)}

\* FaceService.get_first_face_encoding_async
FaceOutcomes ==
    {Returns(Success(PyStr("encoding"), PyNone, PyStr("Encoding obtido"))),
     Returns(Failure1(PyStr("Nenhum rosto encontrado"))),
     Raises(Boom)}

\* ApiRepository.insert_user_table
InsertOutcomes ==
    {Returns(Success(PyInt(1), PyNone, PyStr("Usuário inserido com sucesso"))),
     Returns(Failure(PyStr("Erro ao inserir usuário"), DbError, PyNone, FALSE)),
     Raises(Boom)}

\* ApiRepository.find_user
FindOutcomes ==
    {Returns(Success(PyStr("record"), PyNone, PyStr("Usuário encontrado com sucesso"))),
     Returns(Failure(PyStr("Erro ao encontrar usuário"), DbError, PyNone, FALSE)),
     Returns(Failure(PyStr("Usuário não encontrado"), PyNone,
                     PyStr("Select one executado com sucesso"), FALSE)),
     Raises(Boom)}

\* ApiRepository.insert_historic_table
HistoricOutcomes ==
    {Returns(Success(PyInt(1), PyStr("Registro de acesso criado"),
                     PyStr("Histórico inserido com sucesso"))),
     Returns(Failure(PyStr("Erro ao inserir histórico"), DbError,
                     PyStr("Erro Historico"), TRUE)),
     Raises(Boom)}

\* HistoricModel(**dict(record)): the model validates, or raises
ModelOutcomes == {Returns(PyStr("historic_model")), Raises(Boom)}

Worlds ==
    [user_is_admin : AdminOutcomes,
     get_first_face_encoding_async : FaceOutcomes,
     insert_user_table : InsertOutcomes,
     find_user : FindOutcomes,
     HistoricModel : ModelOutcomes,
     insert_historic_table : HistoricOutcomes]

Saga(w) == [kind |-> "saga", w |-> w]

SagaProducers == {Producer(Saga(w)) : w \in Worlds}

SagaStart == [pc |-> "start", calls |-> <<>>]

Called(it, c) == [it EXCEPT !.calls = Append(@, c)]

\* a yield that is followed by `return`, or the last statement
Terminal(r, it) == Step(Yield(r), [it EXCEPT !.pc = "terminal"])

\* an exception leaves the generator finished
Propagate(o, it) == Step(o, [it EXCEPT !.pc = "done"])

\* ApiController.register_historic, given what insert_historic_table returned
register_historic(r) ==
    IF is_failure(r)
    THEN Failure(PyStr("Erro ao registrar historico"), r.value, PyNone, TRUE)
    ELSE Success(r.value, PyNone, PyStr("Historico registrado com sucesso"))

\* a plausible slip: the `if not is_admin.value` check is missing
SagaAdmin_mut(w, it) ==
    LET it1 == Called(it, "user_is_admin")
        o == w.user_is_admin
    IN IF o.kind = "raise" THEN Propagate(o, it1)
       ELSE IF is_failure(o.value)
       THEN Terminal(Failure(PyStr("Acesso Negado ao Usuario!"), o.value.value,
                             PyNone, FALSE), it1)
       ELSE Step(Yield(Running(PyStr("iniciando Coleta do rosto ..."))),
                 [it1 EXCEPT !.pc = "face"])

\* register_user_db from its first yield to the next: the admin check
SagaAdmin(w, it) ==
    LET it1 == Called(it, "user_is_admin")
        o == w.user_is_admin
    IN IF o.kind = "raise" THEN Propagate(o, it1)
       ELSE IF is_failure(o.value)
       THEN Terminal(Failure(PyStr("Acesso Negado ao Usuario!"), o.value.value,
                             PyNone, FALSE), it1)
       ELSE IF o.value.value = PyBool(FALSE)
       THEN Terminal(Failure(PyStr("Acesso Negado ao Usuario!"), o.value.value,
                             PyNone, FALSE), it1)
       ELSE Step(Yield(Running(PyStr("iniciando Coleta do rosto ..."))),
                 [it1 EXCEPT !.pc = "face"])

\* a plausible slip: the `return` after the yield of the Failure is missing
SagaFace_mut(w, it) ==
    LET it1 == Called(it, "get_first_face_encoding_async")
        o == w.get_first_face_encoding_async
    IN IF o.kind = "raise" THEN Propagate(o, it1)
       ELSE IF is_failure(o.value)
       THEN Step(Yield(Failure(PyStr("Erro ao coletar o rosto"), o.value.value,
                               PyNone, FALSE)),
                 [it1 EXCEPT !.pc = "collected"])
       ELSE Step(Yield(Running(PyStr("Rosto coletado com sucesso"))),
                 [it1 EXCEPT !.pc = "collected"])

\* from `yield Running("iniciando Coleta ...")` to the next yield: the capture
SagaFace(w, it) ==
    LET it1 == Called(it, "get_first_face_encoding_async")
        o == w.get_first_face_encoding_async
    IN IF o.kind = "raise" THEN Propagate(o, it1)
       ELSE IF is_failure(o.value)
       THEN Terminal(Failure(PyStr("Erro ao coletar o rosto"), o.value.value,
                             PyNone, FALSE), it1)
       ELSE Step(Yield(Running(PyStr("Rosto coletado com sucesso"))),
                 [it1 EXCEPT !.pc = "collected"])

\* a plausible slip: the result of the history insert is not looked at
SagaAudit_mut(w, it, db_result) ==
    LET it1 == Called(it, "find_user")
        f == w.find_user
    IN IF f.kind = "raise" THEN Propagate(f, it1)
       ELSE IF is_failure(f.value)
       THEN Terminal(Failure(PyStr("Erro ao registrar o historico ..."),
                             f.value.value, PyNone, FALSE), it1)
       ELSE IF w.HistoricModel.kind = "raise" THEN Propagate(w.HistoricModel, it1)
       ELSE LET it2 == Called(it1, "insert_historic_table")
                h == w.insert_historic_table
            IN IF h.kind = "raise" THEN Propagate(h, it2)
               ELSE Terminal(Success(PyStr("Usuario registrado com sucesso ..."),
                                     db_result.value, PyNone), it2)

\* the audit part: admin lookup, HistoricModel, history insert, final Success
SagaAudit(w, it, db_result) ==
    LET it1 == Called(it, "find_user")
        f == w.find_user
    IN IF f.kind = "raise" THEN Propagate(f, it1)
       ELSE IF is_failure(f.value)
       THEN Terminal(Failure(PyStr("Erro ao registrar o historico ..."),
                             f.value.value, PyNone, FALSE), it1)
       ELSE IF w.HistoricModel.kind = "raise" THEN Propagate(w.HistoricModel, it1)
       ELSE LET it2 == Called(it1, "insert_historic_table")
                h == w.insert_historic_table
            IN IF h.kind = "raise" THEN Propagate(h, it2)
               ELSE LET result_his == register_historic(h.value)
                    IN IF is_failure(result_his)
                       THEN Terminal(Failure(PyStr("Erro ao registrar o historico ..."),
                                             result_his.value, PyNone, FALSE), it2)
                       ELSE Terminal(Success(PyStr("Usuario registrado com sucesso ..."),
                                             db_result.value, PyNone), it2)

\* a plausible slip: the failed insert is not checked and the saga goes on
SagaPersist_mut(w, it) ==
    LET it1 == Called(it, "insert_user_table")
        o == w.insert_user_table
    IN IF o.kind = "raise" THEN Propagate(o, it1)
       ELSE SagaAudit(w, it1, o.value)

\* from `yield Running("Rosto coletado ...")` on: the user insert, then the audit
SagaPersist(w, it) ==
    LET it1 == Called(it, "insert_user_table")
        o == w.insert_user_table
    IN IF o.kind = "raise" THEN Propagate(o, it1)
       ELSE IF is_failure(o.value)
       THEN Terminal(Failure(PyStr("erro ao registrar o usuario ..."),
                             o.value.value, PyNone, FALSE), it1)
       ELSE SagaAudit(w, it1, o.value)

\* __anext__ on the iterator of register_user_db
SagaStep(w, it) ==
    CASE it.pc = "start" ->
            Step(Yield(Running(PyStr("Iniciando registro ..."))),
                 [it EXCEPT !.pc = "admin"])
      [] it.pc = "admin" -> SagaAdmin(w, it)
      [] it.pc = "face" -> SagaFace(w, it)
      [] it.pc = "collected" -> SagaPersist(w, it)
      [] OTHER -> Step(Stop, [it EXCEPT !.pc = "done"])

ProducerStart(body) == IF body.kind = "saga" THEN SagaStart ELSE ScriptStart

ProducerStep(body, it) ==
    IF body.kind = "saga" THEN SagaStep(body.w, it) ELSE ScriptStep(body, it)

(***************************************************************************)
(* StreamCommand.execute_stream.  Calling it only builds the generator     *)
(* (pc = "created"); its body runs as the consumer asks for elements.      *)
(*   pc = "iterating": suspended at `yield task`                           *)
(*   pc = "failed":    suspended at `yield self.result` (except clause)    *)
(*   pc = "closed":    the generator has finished or raised                *)
(***************************************************************************)
NewGen(stream) ==
    [op |-> "execute_stream", stream |-> stream, pc |-> "created",
     fn |-> PyNone, it |-> PyNone, emitted |-> <<>>, requested |-> 0,
     escaped |-> PyNone, caught |-> PyNone]

GenEffect(g, fn, res) == [gen |-> g, function |-> fn, result |-> res]

\* the except clause of execute_stream: result = Failure(e); yield it
StreamCatch(g, fn, e) ==
    GenEffect([g EXCEPT !.pc = "failed", !.fn = fn, !.caught = e,
                        !.emitted = Append(@, Failure1(e))],
              fn, Failure1(e))

\* a plausible slip: the loop treats a yielded Failure as the end of the
\* stream and breaks after forwarding it
StreamPull_mut(g, fn, res, it) ==
    LET st == ProducerStep(fn.body, it)
        g1 == [g EXCEPT !.fn = fn, !.it = st.it, !.requested = @ + 1]
    IN CASE st.out.kind = "yield" ->
              GenEffect([g1 EXCEPT !.pc = IF is_failure(st.out.value)
                                          THEN "failed" ELSE "iterating",
                                   !.emitted = Append(@, st.out.value)],
                        fn, res)
         [] st.out.kind = "stop" ->
              GenEffect([g1 EXCEPT !.pc = "closed"], fn, res)
         [] OTHER -> StreamCatch(g1, fn, st.out.exc)

\* one pass of `async for task in ...: yield task`: ask the producer for its
\* next element and forward it, finish with it, or catch what it raises
StreamPull(g, fn, res, it) ==
    LET st == ProducerStep(fn.body, it)
        g1 == [g EXCEPT !.fn = fn, !.it = st.it, !.requested = @ + 1]
    IN CASE st.out.kind = "yield" ->
              GenEffect([g1 EXCEPT !.pc = "iterating",
                                   !.emitted = Append(@, st.out.value)],
                        fn, res)
         [] st.out.kind = "stop" ->
              GenEffect([g1 EXCEPT !.pc = "closed"], fn, res)
         [] OTHER -> StreamCatch(g1, fn, st.out.exc)

\* a plausible slip: the try/except around the loop is missing
execute_stream_mut(stored, res, g) ==
    IF g.pc = "created"
    THEN LET fn == IF g.stream # PyNone THEN g.stream ELSE stored
         IN IF fn = PyNone
            THEN GenEffect([g EXCEPT !.pc = "closed",
                                     !.escaped = NoFunctionError("AsyncCommand")],
                           fn, res)
            ELSE LET c == CallFn(fn)
                 IN IF c.kind = "raise"
                    THEN GenEffect([g EXCEPT !.pc = "closed", !.fn = fn,
                                             !.escaped = c.exc], fn, res)
                    ELSE IF ~HasKind(c.value, "async_generator")
                    THEN GenEffect([g EXCEPT !.pc = "closed", !.fn = fn,
                                     !.escaped = TypeError("'async for' requires an object with __aiter__ method")],
                                   fn, res)
                    ELSE LET st == ProducerStep(fn.body, ProducerStart(fn.body))
                         IN IF st.out.kind = "raise"
                            THEN GenEffect([g EXCEPT !.pc = "closed", !.fn = fn,
                                                     !.requested = @ + 1,
                                                     !.escaped = st.out.exc],
                                           fn, res)
                            ELSE StreamPull(g, fn, res, ProducerStart(fn.body))
    ELSE IF g.pc = "iterating"
    THEN LET st == ProducerStep(g.fn.body, g.it)
         IN IF st.out.kind = "raise"
            THEN GenEffect([g EXCEPT !.pc = "closed", !.requested = @ + 1,
                                     !.escaped = st.out.exc], g.fn, res)
            ELSE StreamPull(g, g.fn, res, g.it)
    ELSE GenEffect([g EXCEPT !.pc = "closed"], stored, res)

\* the consumer's __anext__ on the generator g of execute_stream(stream), on
\* a command whose fields are stored, res
execute_stream(stored, res, g) ==
    IF g.pc = "created"
    THEN LET fn == IF g.stream # PyNone THEN g.stream ELSE stored
         IN IF fn = PyNone
            THEN GenEffect([g EXCEPT !.pc = "closed",
                                     !.escaped = NoFunctionError("AsyncCommand")],
                           fn, res)
            ELSE LET c == CallFn(fn)
                 IN IF c.kind = "raise"
                    THEN StreamCatch(g, fn, c.exc)
                    ELSE IF ~HasKind(c.value, "async_generator")
                    THEN StreamCatch(g, fn,
                             TypeError("'async for' requires an object with __aiter__ method"))
                    ELSE StreamPull(g, fn, res, ProducerStart(fn.body))
    ELSE IF g.pc = "iterating"
    THEN StreamPull(g, g.fn, res, g.it)
    ELSE GenEffect([g EXCEPT !.pc = "closed"], stored, res)

(***************************************************************************)
(* Specification of the command hierarchy: one StreamCommand instance      *)
(* (which is also an AsyncCommand and a Command), used by one caller, one  *)
(* execution at a time.                                                    *)
(***************************************************************************)
Functions == SyncOps \cup AsyncOps \cup ScriptProducers

InFlight == gen # Idle /\ gen.pc # "closed"

CmdInit ==
    /\ cmd_function \in {PyNone} \cup Functions
    /\ result = PyNone
    /\ last = Idle
    /\ gen = Idle
    /\ DbIdle
    /\ QueryIdle
    /\ RouteIdle
    /\ self_r = Running(PyInt(0))
    /\ op_out = Idle

Execute ==
    /\ ~InFlight
    /\ \E function \in {PyNone} \cup SyncOps :
          LET e == execute(cmd_function, result, function)
          IN /\ cmd_function' = e.function
             /\ result' = e.result
             /\ last' = [op |-> "execute", function |-> e.function,
                         out |-> e.out, caught |-> e.caught,
                         supplied |-> function]
    /\ gen' = Idle
    /\ UNCHANGED <<resultVars, dbVars, queryVars, routeVars>>

ExecuteAsync ==
    /\ ~InFlight
    /\ \E function \in {PyNone} \cup AsyncOps :
          LET e == execute_async(cmd_function, result, function)
          IN /\ cmd_function' = e.function
             /\ result' = e.result
             /\ last' = [op |-> "execute_async", function |-> e.function,
                         out |-> e.out, caught |-> e.caught,
                         supplied |-> function]
    /\ gen' = Idle
    /\ UNCHANGED <<resultVars, dbVars, queryVars, routeVars>>

\* the call execute_stream(stream): builds the generator, runs nothing
ExecuteStream ==
    /\ ~InFlight
    /\ \E stream \in {PyNone} \cup ScriptProducers : gen' = NewGen(stream)
    /\ last' = Idle
    /\ UNCHANGED <<cmd_function, result, resultVars, dbVars, queryVars, routeVars>>

\* the consumer asks the generator for its next element
StreamNext ==
    /\ InFlight
    /\ LET e == execute_stream(cmd_function, result, gen)
       IN /\ gen' = e.gen
          /\ cmd_function' = e.function
          /\ result' = e.result
    /\ UNCHANGED <<last, resultVars, dbVars, queryVars, routeVars>>

CmdNext == Execute \/ ExecuteAsync \/ ExecuteStream \/ StreamNext

SpecCmd == CmdInit /\ [][CmdNext]_vars

(***************************************************************************)
(* Helpers of the claims about the command hierarchy.                      *)
(***************************************************************************)
IsPrefix(a, b) == Len(a) <= Len(b) /\ SubSeq(b, 1, Len(a)) = a

\* the generator runs a scripted producer
Scripted(g) ==
    /\ g # Idle
    /\ g.fn # PyNone
    /\ HasKind(g.fn, "async_generator_function")
    /\ g.fn.body.kind = "script"

\* the exception fn raises while it runs as the operation of a command
\* method (PyNone when its body does not raise)
FaultOf(fn) ==
    IF fn = PyNone THEN PyNone
    ELSE IF fn.k \in {"function", "coroutine_function"}
    THEN (IF fn.does.kind = "raise" THEN fn.does.exc ELSE PyNone)
    ELSE IF fn.k = "wrapper" /\ fn.function.does.kind = "raise"
    THEN fn.function.does.exc
    ELSE IF fn.k = "async_generator_function" /\ fn.body.kind = "script"
            /\ fn.body.ending.kind = "raise"
    THEN fn.body.ending.exc
    ELSE PyNone

\* a plain function ran under execute, or an awaitable one under execute_async
RanAsMeant ==
    /\ last # Idle
    /\ last.function # PyNone
    /\ \/ last.op = "execute" /\ last.function.k = "function"
       \/ last.op = "execute_async"
          /\ last.function.k \in {"coroutine_function", "wrapper"}

(***************************************************************************)
(* C2: for a producer that yields n >= 0 Results and then raises,          *)
(* execute_stream emits exactly those n Results in order, then exactly one *)
(* Failure wrapping the fault, then ends; the producer is asked for n + 1  *)
(* elements and never again.                                               *)
(***************************************************************************)
C2_StreamThenFailure ==
    (Scripted(gen) /\ gen.fn.body.ending.kind = "raise") =>
        LET items == gen.fn.body.items
            e == gen.fn.body.ending.exc
            full == Append(items, Failure1(e))
        IN /\ IsPrefix(gen.emitted, full)
           /\ gen.requested <= Len(items) + 1
           /\ gen.pc = "iterating" => gen.emitted = SubSeq(items, 1, gen.requested)
           /\ gen.pc \in {"failed", "closed"} =>
                /\ gen.emitted = full
                /\ gen.requested = Len(items) + 1
                /\ gen.escaped = PyNone

\* a producer that yielded two Results and raised has been run to its end
C2_Witness ==
    /\ Scripted(gen)
    /\ gen.fn.body.ending.kind = "raise"
    /\ Len(gen.fn.body.items) = 2
    /\ gen.pc = "closed"
    /\ Len(gen.emitted) = 3
    /\ is_failure(gen.emitted[3])

(***************************************************************************)
(* C5: no fault escapes the wrappers.  When the operation raises while it  *)
(* runs, execute and execute_async return a Failure and execute_stream     *)
(* emits a Failure; the only exception a caller ever gets is the           *)
(* configuration error for a missing operation.                            *)
(***************************************************************************)
C5_NoFaultEscapes ==
    /\ (last # Idle /\ last.function # PyNone) => last.out.kind = "return"
    /\ (RanAsMeant /\ FaultOf(last.function) # PyNone) =>
            /\ last.out.kind = "return"
            /\ is_failure(last.out.value)
    /\ (gen # Idle /\ gen.escaped # PyNone) =>
            /\ gen.fn = PyNone
            /\ gen.emitted = <<>>
    /\ (Scripted(gen) /\ FaultOf(gen.fn) # PyNone
        /\ gen.requested = Len(gen.fn.body.items) + 1) =>
            /\ gen.escaped = PyNone
            /\ is_failure(gen.emitted[Len(gen.emitted)])

\* Command.execute ran an operation that raised and returned a Failure
C5_Witness ==
    /\ RanAsMeant
    /\ last.op = "execute"
    /\ FaultOf(last.function) # PyNone
    /\ last.out.kind = "return"
    /\ is_failure(last.out.value)

(***************************************************************************)
(* C6 (as claimed): the Failure each of the three wrappers produces for a  *)
(* caught fault carries the fault's message string as its value and the    *)
(* fault's args tuple as its details.                                      *)
(***************************************************************************)
C6_FailureCarriesMessage ==
    /\ (last # Idle /\ last.caught # PyNone) =>
            /\ last.out.value.value = str(last.caught)
            /\ last.out.value.details = PyTuple(last.caught.args)
    /\ (gen # Idle /\ gen.caught # PyNone) =>
            /\ gen.emitted[Len(gen.emitted)].value = str(gen.caught)
            /\ gen.emitted[Len(gen.emitted)].details = PyTuple(gen.caught.args)

(***************************************************************************)
(* C6 (amended): only execute_async builds the Failure from the message:   *)
(* value = str(e), details = e.args, log = "Erro no AsyncCommand".         *)
(* Command.execute and execute_stream produce Failure(e): the value is the *)
(* exception object itself and details is None.  In each case the fault    *)
(* caught is the one the operation raised, and `result` holds the Failure. *)
(***************************************************************************)
C6_FailureShape ==
    /\ (last # Idle /\ last.caught # PyNone) =>
            /\ is_failure(last.out.value)
            /\ result = last.out.value
            /\ last.op = "execute_async" =>
                 /\ last.out.value.value = str(last.caught)
                 /\ last.out.value.details = PyTuple(last.caught.args)
                 /\ last.out.value.log = PyStr("Erro no AsyncCommand")
            /\ last.op = "execute" =>
                 /\ last.out.value.value = last.caught
                 /\ last.out.value.details = PyNone
    /\ (RanAsMeant /\ FaultOf(last.function) # PyNone) =>
            last.caught = FaultOf(last.function)
    /\ (gen # Idle /\ gen.caught # PyNone) =>
            LET f == gen.emitted[Len(gen.emitted)]
            IN /\ is_failure(f)
               /\ f.value = gen.caught
               /\ f.details = PyNone
               /\ result = f
    /\ (Scripted(gen) /\ gen.pc \in {"failed", "closed"}
        /\ FaultOf(gen.fn) # PyNone) =>
            gen.caught = FaultOf(gen.fn)

\* execute_async caught a fault with two args: str(e) is not e and details
\* is the args tuple
C6_Witness ==
    /\ RanAsMeant
    /\ last.op = "execute_async"
    /\ last.caught # PyNone
    /\ Len(last.caught.args) = 2
    /\ last.out.value.details = PyTuple(last.caught.args)

\* this step is a call of op that found no function stored and got none
CallsWithoutFunction(op) ==
    /\ cmd_function = PyNone
    /\ last' # last
    /\ last' # Idle
    /\ last'.op = op
    /\ last'.function = PyNone

\* this step is the first iteration of execute_stream() on a command with
\* no function stored
FirstIterationWithoutFunction ==
    /\ cmd_function = PyNone
    /\ gen # Idle
    /\ gen.pc = "created"
    /\ gen.stream = PyNone
    /\ gen' # gen

(***************************************************************************)
(* C20: when no operation is stored and none is supplied, Command.execute, *)
(* AsyncCommand.execute_async and StreamCommand.execute_stream (on its     *)
(* first iteration) raise a configuration error to the caller rather than  *)
(* returning or emitting a Failure, and leave `result` unchanged.          *)
(***************************************************************************)
C20_NoFunctionRaises ==
    [][/\ CallsWithoutFunction("execute") =>
            /\ last'.out = Raises(NoFunctionError("Command"))
            /\ last'.caught = PyNone
            /\ result' = result
       /\ CallsWithoutFunction("execute_async") =>
            /\ last'.out = Raises(NoFunctionError("AsyncCommand"))
            /\ last'.caught = PyNone
            /\ result' = result
       /\ FirstIterationWithoutFunction =>
            /\ gen'.escaped = NoFunctionError("AsyncCommand")
            /\ gen'.emitted = <<>>
            /\ gen'.caught = PyNone
            /\ gen'.pc = "closed"
            /\ result' = result]_vars

\* execute() on a command built without a function: the caller got the
\* ValueError and no Result was stored
C20_Witness ==
    /\ last # Idle
    /\ last.op = "execute"
    /\ last.function = PyNone
    /\ last.out = Raises(NoFunctionError("Command"))
    /\ cmd_function = PyNone
    /\ result = PyNone

(***************************************************************************)
(* C29: when the producer finishes without raising, execute_stream emits   *)
(* exactly the producer's Results, each unmodified and in the producer's    *)
(* order, and adds no element of its own; a Failure yielded by the         *)
(* producer is forwarded like any other element and does not stop the      *)
(* stream.                                                                 *)
(***************************************************************************)
C29_ForwardsUnmodified ==
    (Scripted(gen) /\ gen.fn.body.ending = Stop) =>
        LET items == gen.fn.body.items
        IN /\ IsPrefix(gen.emitted, items)
           /\ gen.pc # "failed"
           /\ gen.caught = PyNone
           /\ gen.escaped = PyNone
           /\ gen.pc = "iterating" =>
                /\ gen.requested <= Len(items)
                /\ gen.emitted = SubSeq(items, 1, gen.requested)
           /\ gen.pc = "closed" =>
                /\ gen.emitted = items
                /\ gen.requested = Len(items) + 1

\* a producer that yielded a Failure and then a Success and finished: both
\* were emitted, the Failure first
C29_Witness ==
    /\ Scripted(gen)
    /\ gen.fn.body.ending = Stop
    /\ gen.pc = "closed"
    /\ Len(gen.emitted) = 2
    /\ is_failure(gen.emitted[1])
    /\ is_success(gen.emitted[2])
    /\ gen.emitted = gen.fn.body.items

\* this step is a completed or refused call of execute / execute_async
CallStep == last' # Idle /\ last' # last

(***************************************************************************)
(* C21: after any sequence of Command.execute and                          *)
(* AsyncCommand.execute_async calls run one at a time on one command       *)
(* instance, `result` equals the Result returned by the most recent        *)
(* completed execution, including when that execution ended in a caught    *)
(* fault; it is never reset between executions, and an operation supplied  *)
(* at call time stays the stored operation for later calls that supply     *)
(* none.                                                                   *)
(***************************************************************************)
C21_ResultIsLastReturned ==
    [][CallStep =>
          /\ last'.out.kind = "return" => result' = last'.out.value
          /\ last'.caught # PyNone =>
                /\ last'.out.kind = "return"
                /\ is_failure(result')
          /\ last'.out.kind = "raise" => result' = result
          /\ cmd_function' = last'.function
          /\ last'.supplied = PyNone =>
                /\ last'.function = cmd_function
                /\ cmd_function' = cmd_function
          /\ last'.supplied # PyNone =>
                cmd_function' = IF last'.op = "execute" THEN last'.supplied
                                ELSE Wrapper(last'.supplied)]_vars

\* an execute_async call that supplied nothing ran the operation stored by
\* an earlier call, caught its fault, and the Failure it returned is stored
C21_Witness ==
    /\ last # Idle
    /\ last.op = "execute_async"
    /\ last.supplied = PyNone
    /\ last.function # PyNone
    /\ last.function.k = "wrapper"
    /\ last.caught # PyNone
    /\ is_failure(result)
    /\ result = last.out.value

(***************************************************************************)
(* Specification of the registration saga: a StreamCommand constructed     *)
(* with `lambda: controller.register_user_db(user, admin)` and consumed by *)
(* one reader through execute_stream().                                    *)
(***************************************************************************)
SagaInit ==
    /\ cmd_function \in SagaProducers
    /\ result = PyNone
    /\ last = Idle
    /\ gen = Idle
    /\ DbIdle
    /\ QueryIdle
    /\ RouteIdle
    /\ self_r = Running(PyInt(0))
    /\ op_out = Idle

\* stream_command.execute_stream() with no argument
SagaExecuteStream ==
    /\ ~InFlight
    /\ gen' = NewGen(PyNone)
    /\ UNCHANGED <<cmd_function, result, last, resultVars, dbVars, queryVars, routeVars>>

SagaNext == SagaExecuteStream \/ StreamNext

SpecSaga == SagaInit /\ [][SagaNext]_vars

\* the world of the saga the generator runs
SagaRuns(g) ==
    /\ g # Idle
    /\ g.fn # PyNone
    /\ g.fn.body.kind = "saga"

Failures(seq) == {i \in 1..Len(seq) : is_failure(seq[i])}

ReturnsFailure(o) == o.kind = "return" /\ is_failure(o.value)

(***************************************************************************)
(* C3: when the admin check returns Success(False) the saga emits exactly  *)
(* [Running("Iniciando registro ..."), Failure("Acesso Negado ao           *)
(* Usuario!")] and neither the face capture nor any datastore insert is    *)
(* invoked.                                                                *)
(***************************************************************************)
C3_NonAdminRejected ==
    (SagaRuns(gen) /\ gen.fn.body.w.user_is_admin.kind = "return"
     /\ gen.fn.body.w.user_is_admin.value.value = PyBool(FALSE)) =>
        LET full == <<Running(PyStr("Iniciando registro ...")),
                      Failure(PyStr("Acesso Negado ao Usuario!"), PyBool(FALSE),
                              PyNone, FALSE)>>
        IN /\ IsPrefix(gen.emitted, full)
           /\ IsPrefix(gen.it.calls, <<"user_is_admin">>)
           /\ gen.pc = "closed" => (gen.emitted = full /\ gen.escaped = PyNone)
           /\ gen.requested >= 2 => gen.emitted = full

\* a non-admin's registration ran to its end
C3_Witness ==
    /\ SagaRuns(gen)
    /\ gen.fn.body.w.user_is_admin.kind = "return"
    /\ gen.fn.body.w.user_is_admin.value.value = PyBool(FALSE)
    /\ gen.pc = "closed"
    /\ gen.it.calls = <<"user_is_admin">>
    /\ Len(gen.emitted) = 2

(***************************************************************************)
(* C4: as soon as a step of the saga returns a Failure, the saga emits one *)
(* terminal Failure and performs no later step: the failing collaborator   *)
(* is the last one called, the Failure is the only Failure emitted and     *)
(* nothing is emitted after it.                                            *)
(***************************************************************************)
C4_FirstFailureStops ==
    SagaRuns(gen) =>
        LET w == gen.fn.body.w
            calls == gen.it.calls
        IN /\ IsPrefix(calls, Collaborators)
           /\ \A i \in 1..Len(calls) :
                ReturnsFailure(w[calls[i]]) =>
                    /\ i = Len(calls)
                    /\ Failures(gen.emitted) = {Len(gen.emitted)}
                    /\ gen.escaped = PyNone
           /\ \A i \in Failures(gen.emitted) : i = Len(gen.emitted)

\* the history insert, the last step, failed after four successful steps
C4_Witness ==
    /\ SagaRuns(gen)
    /\ gen.it.calls = Collaborators
    /\ ReturnsFailure(gen.fn.body.w.insert_historic_table)
    /\ gen.pc = "closed"
    /\ is_failure(gen.emitted[Len(gen.emitted)])

\* the number of Running elements in a sequence
Runnings(seq) == Cardinality({i \in 1..Len(seq) : is_running(seq[i])})

\* the saga step (1..4) a collaborator belongs to
StepOf(c) ==
    CASE c = "user_is_admin" -> 1
      [] c = "get_first_face_encoding_async" -> 2
      [] c = "insert_user_table" -> 3
      [] OTHER -> 4

\* the steps the saga has started
StepsStarted(calls) == {StepOf(calls[i]) : i \in 1..Len(calls)}

\* collaborator c returned a Success
ReturnsSuccess(o) == o.kind = "return" /\ is_success(o.value)

\* collaborator c reported a datastore error
ReturnsDbError(o) == ReturnsFailure(o) /\ o.value.details = DbError

(***************************************************************************)
(* C22: in register_user_db each of the four effectful steps (admin        *)
(* authorization, face capture, user persistence, audit lookup and history *)
(* insert) is preceded by its own Running element, emitted after the       *)
(* previous step finished and before the step's collaborator is called; a  *)
(* fully successful run emits four Running elements before the terminal    *)
(* Success.                                                                *)
(***************************************************************************)
C22_EachStepAnnounced ==
    SagaRuns(gen) =>
        /\ Cardinality(StepsStarted(gen.it.calls)) <= Runnings(gen.emitted)
        /\ (gen.emitted # <<>> /\ is_success(gen.emitted[Len(gen.emitted)])) =>
              Runnings(gen.emitted) = 4

(***************************************************************************)
(* C23: when the user insert (step 3) or the admin lookup / history insert *)
(* (step 4) of register_user_db fails on a datastore error, the terminal   *)
(* Failure the saga emits has its critical (error) flag true; when the     *)
(* admin check rejects the principal the terminal Failure has critical     *)
(* false.                                                                  *)
(***************************************************************************)
C23_DatastoreFailureIsCritical ==
    (SagaRuns(gen) /\ gen.it.calls # <<>> /\ gen.it.pc = "terminal") =>
        LET w == gen.fn.body.w
            c == gen.it.calls[Len(gen.it.calls)]
            terminal == gen.emitted[Len(gen.emitted)]
        IN /\ (StepOf(c) \in {3, 4} /\ ReturnsDbError(w[c])) =>
                (is_failure(terminal) /\ terminal.error = TRUE)
           /\ (c = "user_is_admin" /\ ReturnsSuccess(w[c])
                 /\ w[c].value.value = PyBool(FALSE)) =>
                (is_failure(terminal) /\ terminal.error = FALSE)

(***************************************************************************)
(* C24: every complete sequence produced by execute_stream over            *)
(* register_user_db, for every combination of collaborator outcomes        *)
(* including collaborators that raise, consists of one or more Running     *)
(* elements followed by exactly one terminal element (Success or Failure), *)
(* with no element after the terminal one.                                 *)
(***************************************************************************)
C24_RunningsThenOneTerminal ==
    SagaRuns(gen) =>
        LET n == Len(gen.emitted)
        IN /\ \A i \in 1..n : i < n => is_running(gen.emitted[i])
           /\ gen.escaped = PyNone
           /\ gen.pc = "closed" =>
                /\ n >= 2
                /\ ~is_running(gen.emitted[n])
                /\ is_success(gen.emitted[n]) \/ is_failure(gen.emitted[n])
           /\ gen.pc = "failed" => is_failure(gen.emitted[n])

\* the face capture raised: the run is complete, two Running elements and
\* the Failure wrapping the exception
C24_Witness ==
    /\ SagaRuns(gen)
    /\ gen.pc = "closed"
    /\ gen.caught = Boom
    /\ gen.it.calls = <<"user_is_admin", "get_first_face_encoding_async">>
    /\ gen.emitted = <<Running(PyStr("Iniciando registro ...")),
                       Running(PyStr("iniciando Coleta do rosto ...")),
                       Failure1(Boom)>>

(***************************************************************************)
(* C25: register_user_db emits the terminal Success only after, in this    *)
(* order, the admin check returned Success(True), the face capture         *)
(* succeeded, the user insert succeeded, the admin lookup succeeded and    *)
(* the history insert succeeded; each of these collaborators is called at  *)
(* most once per saga run.                                                 *)
(***************************************************************************)
C25_SuccessOnlyAfterAllSteps ==
    SagaRuns(gen) =>
        LET w == gen.fn.body.w
            calls == gen.it.calls
        IN /\ IsPrefix(calls, Collaborators)
           /\ \A i, j \in 1..Len(calls) : calls[i] = calls[j] => i = j
           /\ (\E i \in 1..Len(gen.emitted) : is_success(gen.emitted[i])) =>
                /\ calls = Collaborators
                /\ \A i \in 1..Len(Collaborators) :
                     ReturnsSuccess(w[Collaborators[i]])
                /\ w.user_is_admin.value.value = PyBool(TRUE)
                /\ w.HistoricModel.kind = "return"
                /\ is_success(gen.emitted[Len(gen.emitted)])

\* a registration in which every collaborator succeeded ran to its end
C25_Witness ==
    /\ SagaRuns(gen)
    /\ gen.pc = "closed"
    /\ gen.it.calls = Collaborators
    /\ Len(gen.emitted) = 4
    /\ gen.emitted[4] = Success(PyStr("Usuario registrado com sucesso ..."),
                                PyInt(1), PyNone)

(***************************************************************************)
(* DatabaseCommand (database_command.py).  execute_query suspends at three *)
(* awaits: database.connect(), the statement, database.disconnect().  The  *)
(* datastore decides the outcome of each.  A caller's frame records where  *)
(* its call is suspended and what the call has done so far.                *)
(***************************************************************************)
\* what a datastore call does: it returns (a value) or raises
DbOutcomes == {Returns(PyNone)} \cup {Raises(e) : e \in Excs}

\* what a statement returns: a row, no row, a row count
Data == {PyNone} \cup Payloads

StatementOutcomes == {Returns(d) : d \in Data} \cup {Raises(e) : e \in Excs}

\* the type_fetch argument
FetchModes == {PyStr("one"), PyStr("all"), PyNone, PyStr("many")}

\* the bound method self._connect_func handed to execute_async
ConnectFunc == [k |-> "bound_method", name |-> "_connect_func"]

DbEffect(conn, res) == [isconnected |-> conn, result |-> res]

\* a plausible slip: the flag is not raised after a successful connect
connect_func_mut(outcome) ==
    IF outcome.kind = "return"
    THEN DbEffect(FALSE, Success1(PyStr("Conexão bem-sucedida")))
    ELSE DbEffect(FALSE, Failure(PyStr("Erro ao se conectar ao DB"),
                                 str(outcome.exc), PyNone, FALSE))

\* DatabaseCommand._connect_func, given what database.connect() did
connect_func(outcome) ==
    IF outcome.kind = "return"
    THEN DbEffect(TRUE, Success1(PyStr("Conexão bem-sucedida")))
    ELSE DbEffect(FALSE, Failure(PyStr("Erro ao se conectar ao DB"),
                                 str(outcome.exc), PyNone, FALSE))

\* a plausible slip: _disconnect goes to the datastore without looking at
\* the flag
disconnect_guard_mut(conn) == [called |-> TRUE, result |-> PyNone]

\* DatabaseCommand._disconnect up to its isconnected check: with the flag
\* down it returns at once, else it goes on to call the datastore
disconnect_guard(conn) ==
    IF ~conn
    THEN [called |-> FALSE, result |-> Success1(PyStr("DB já desconectado"))]
    ELSE [called |-> TRUE, result |-> PyNone]

\* a plausible slip: the flag is not cleared after a successful disconnect
disconnect_mut(conn, outcome) ==
    IF outcome.kind = "return"
    THEN DbEffect(conn, Success1(PyStr("Desconexão bem-sucedida")))
    ELSE DbEffect(conn, Failure(PyStr("Erro ao desconectar do DB"),
                                str(outcome.exc), PyNone, FALSE))

\* DatabaseCommand._disconnect past its isconnected check, given what
\* database.disconnect() did
disconnect(conn, outcome) ==
    IF outcome.kind = "return"
    THEN DbEffect(FALSE, Success1(PyStr("Desconexão bem-sucedida")))
    ELSE DbEffect(conn, Failure(PyStr("Erro ao desconectar do DB"),
                                str(outcome.exc), PyNone, FALSE))

\* a plausible slip: the two fetch branches are swapped
FetchMethod_mut(type_fetch) ==
    IF type_fetch = PyStr("one") THEN "fetch_all"
    ELSE IF type_fetch = PyStr("all") THEN "fetch_one"
    ELSE "execute"

\* the datastore method execute_query calls for a fetch mode
FetchMethod(type_fetch) ==
    IF type_fetch = PyStr("one") THEN "fetch_one"
    ELSE IF type_fetch = PyStr("all") THEN "fetch_all"
    ELSE "execute"

\* the Result execute_query's try block leaves to be returned
statement_result(outcome) ==
    IF outcome.kind = "return"
    THEN Success1(outcome.value)
    ELSE Failure(PyStr("Erro ao executar a query"), str(outcome.exc), PyNone, FALSE)

\* a plausible slip: `return await self._disconnect()` in the finally block
finally_return_mut(pending, disc) == disc

\* the finally block awaits _disconnect and drops what it returns: the call
\* returns what the try block or the except block had returned
finally_return(pending, disc) == pending

NewFrame(type_fetch) ==
    [pc |-> "connect", type_fetch |-> type_fetch, connect |-> PyNone,
     conn_result |-> PyNone, stmt |-> PyNone, issued |-> <<>>,
     executed |-> PyNone, pending |-> PyNone,
     disconnects |-> 0, db_disconnects |-> 0, db_disconnect |-> PyNone,
     entered |-> PyNone, disc |-> PyNone, ret |-> PyNone]

\* execute_query is called and suspends at `await self._connect()`
ExecuteQuery(c) ==
    /\ c \in active
    /\ frames[c].pc = "idle"
    /\ \E type_fetch \in FetchModes :
          frames' = [frames EXCEPT ![c] = NewFrame(type_fetch)]
    /\ cmd_function' = Wrapper(ConnectFunc)
    /\ UNCHANGED <<isconnected, active, result, last, gen, resultVars, queryVars, routeVars>>

\* database.connect() finishes; a failed connect makes execute_query return
ConnectDone(c) ==
    /\ frames[c].pc = "connect"
    /\ \E outcome \in DbOutcomes :
          LET cf == connect_func(outcome)
              ea == execute_async(cmd_function, result, AsyncOp(Returns(cf.result)))
              conn_result == ea.out.value
          IN /\ isconnected' = cf.isconnected
             /\ result' = ea.result
             /\ frames' =
                  [frames EXCEPT ![c] =
                     IF is_failure(conn_result)
                     THEN [@ EXCEPT !.pc = "returned", !.connect = outcome,
                                    !.conn_result = conn_result,
                                    !.ret = Failure(PyStr("Erro ao conectar ao banco de dados"),
                                                    conn_result.value, PyNone, FALSE)]
                     ELSE [@ EXCEPT !.pc = "statement", !.connect = outcome,
                                    !.conn_result = conn_result,
                                    !.stmt = FetchMethod(frames[c].type_fetch),
                                    !.issued = Append(frames[c].issued,
                                                 FetchMethod(frames[c].type_fetch))]]
    /\ UNCHANGED <<cmd_function, active, last, gen, resultVars, queryVars, routeVars>>

\* the statement finishes; the finally block calls _disconnect, which
\* returns at once when the flag is down and else awaits the datastore
StatementDone(c) ==
    /\ frames[c].pc = "statement"
    /\ \E outcome \in StatementOutcomes :
          frames' =
            [frames EXCEPT ![c] =
               IF ~disconnect_guard(isconnected).called
               THEN [@ EXCEPT !.pc = "returned",
                              !.executed = outcome,
                              !.pending = statement_result(outcome),
                              !.disconnects = @ + 1,
                              !.entered = PyBool(isconnected),
                              !.disc = disconnect_guard(isconnected).result,
                              !.ret = finally_return(
                                         statement_result(outcome),
                                         disconnect_guard(isconnected).result)]
               ELSE [@ EXCEPT !.pc = "disconnect",
                              !.executed = outcome,
                              !.pending = statement_result(outcome),
                              !.disconnects = @ + 1,
                              !.entered = PyBool(isconnected),
                              !.db_disconnects = @ + 1]]
    /\ UNCHANGED <<isconnected, active, cmdVars, resultVars, queryVars, routeVars>>

\* database.disconnect() finishes; execute_query returns what was pending
DisconnectDone(c) ==
    /\ frames[c].pc = "disconnect"
    /\ \E outcome \in DbOutcomes :
          LET d == disconnect(isconnected, outcome)
          IN /\ isconnected' = d.isconnected
             /\ frames' = [frames EXCEPT ![c] =
                             [@ EXCEPT !.pc = "returned",
                                       !.db_disconnect = outcome,
                                       !.disc = d.result,
                                       !.ret = finally_return(frames[c].pending,
                                                              d.result)]]
    /\ UNCHANGED <<active, cmdVars, resultVars, queryVars, routeVars>>

\* the caller takes the Result; it may call execute_query again
Collect(c) ==
    /\ frames[c].pc = "returned"
    /\ frames' = [frames EXCEPT ![c] = NoFrame]
    /\ UNCHANGED <<isconnected, active, cmdVars, resultVars, queryVars, routeVars>>

\* a DatabaseCommand as DatabaseRepository builds it, used by one caller
DbInit ==
    /\ isconnected = FALSE
    /\ active = {1}
    /\ frames = [c \in Callers |-> NoFrame]
    /\ QueryIdle
    /\ RouteIdle
    /\ cmd_function = PyNone
    /\ result = PyNone
    /\ last = Idle
    /\ gen = Idle
    /\ self_r = Running(PyInt(0))
    /\ op_out = Idle

DbNext ==
    \E c \in Callers :
        \/ ExecuteQuery(c)
        \/ ConnectDone(c)
        \/ StatementDone(c)
        \/ DisconnectDone(c)
        \/ Collect(c)

SpecDb == DbInit /\ [][DbNext]_vars

Returned(c) == frames[c].pc = "returned"

(***************************************************************************)
(* C1 (as claimed): every execute_query call invokes _disconnect exactly   *)
(* once before it returns, on each exit path: connect failed, statement    *)
(* raised, statement succeeded.                                            *)
(***************************************************************************)
C1_DisconnectOncePerCall ==
    \A c \in Callers : Returned(c) => frames[c].disconnects = 1

DbSharedInit ==
    /\ isconnected = FALSE
    /\ active = {1, 2}
    /\ frames = [c \in Callers |-> NoFrame]
    /\ QueryIdle
    /\ RouteIdle
    /\ cmd_function = PyNone
    /\ result = PyNone
    /\ last = Idle
    /\ gen = Idle
    /\ self_r = Running(PyInt(0))
    /\ op_out = Idle

SpecDbShared == DbSharedInit /\ [][DbNext]_vars

\* caller c's execute_query enters _disconnect in this step
EntersDisconnect(c) ==
    /\ frames[c].pc = "statement"
    /\ frames'[c].pc # "statement"

(***************************************************************************)
(* C19: calling the disconnect step (_disconnect) while isconnected is     *)
(* false returns a Success, does not call the datastore's disconnect, and  *)
(* leaves isconnected false.                                               *)
(***************************************************************************)
C19_DisconnectNoOp ==
    [][\A c \in Callers :
          (EntersDisconnect(c) /\ ~isconnected) =>
              /\ frames'[c].entered = PyBool(FALSE)
              /\ frames'[c].disc # PyNone
              /\ is_success(frames'[c].disc)
              /\ frames'[c].db_disconnects = 0
              /\ frames'[c].db_disconnect = PyNone
              /\ frames'[c].pc = "returned"
              /\ ~isconnected']_vars

\* caller 2's statement finished after caller 1 had disconnected: its
\* _disconnect found the flag down and returned without a datastore call
C19_Witness ==
    /\ Returned(2)
    /\ frames[2].connect = Returns(PyNone)
    /\ frames[2].entered = PyBool(FALSE)
    /\ frames[2].disc = Success1(PyStr("DB já desconectado"))
    /\ frames[2].db_disconnects = 0
    /\ ~isconnected

\* caller c's connect succeeds and its statement goes to the datastore in
\* this step
IssuesStatement(c) ==
    /\ frames[c].pc = "connect"
    /\ frames'[c].pc = "statement"

\* caller c's database.disconnect() returns in this step
Disconnects(c) ==
    /\ frames[c].pc = "disconnect"
    /\ frames'[c].pc = "returned"
    /\ frames'[c].db_disconnect.kind = "return"

C28_OneStatementPerCall ==
    \A c \in Callers :
        LET f == frames[c]
        IN f.pc # "idle" =>
             /\ Len(f.issued) <= 1
             /\ f.pc \in {"statement", "disconnect"} => Len(f.issued) = 1
             /\ Returned(c) =>
                  IF f.connect.kind = "return"
                  THEN f.issued =
                         <<CASE f.type_fetch = PyStr("one") -> "fetch_one"
                             [] f.type_fetch = PyStr("all") -> "fetch_all"
                             [] OTHER -> "execute">>
                  ELSE /\ f.issued = <<>>
                       /\ is_failure(f.ret)

\* a call with fetch mode 'all' returned after its one fetch_all
C28_Witness ==
    /\ Returned(1)
    /\ frames[1].type_fetch = PyStr("all")
    /\ frames[1].connect = Returns(PyNone)
    /\ frames[1].issued = <<"fetch_all">>
    /\ is_success(frames[1].ret)

\* the connect step of caller c's call succeeded
Connected(c) == frames[c].connect # PyNone /\ frames[c].connect.kind = "return"

\* the statement of caller c's call was issued and did not raise
Executed(c) == frames[c].executed # PyNone /\ frames[c].executed.kind = "return"

(***************************************************************************)
(* C37: execute_query never raises: it returns Success(data) exactly when  *)
(* the connect step succeeded and the statement did not raise, and a       *)
(* Failure in every other case; the outcome of the disconnect step         *)
(* (including a datastore error during disconnect) never changes the       *)
(* Result that is returned.                                                *)
(***************************************************************************)
C37_ResultIgnoresDisconnect ==
    \A c \in Callers :
        Returned(c) =>
            /\ is_success(frames[c].ret) \/ is_failure(frames[c].ret)
            /\ is_success(frames[c].ret) <=> (Connected(c) /\ Executed(c))
            /\ (Connected(c) /\ Executed(c))
                  => frames[c].ret = Success1(frames[c].executed.value)
            /\ (Connected(c) /\ ~Executed(c))
                  => frames[c].ret = Failure(PyStr("Erro ao executar a query"),
                                             str(frames[c].executed.exc),
                                             PyNone, FALSE)

C37_Witness ==
    \E c \in Callers :
        /\ Returned(c)
        /\ Connected(c)
        /\ Executed(c)
        /\ frames[c].db_disconnect # PyNone
        /\ frames[c].db_disconnect.kind = "raise"
        /\ is_failure(frames[c].disc)
        /\ is_success(frames[c].ret)

(***************************************************************************)
(* models/query_model.py: QueryModel, the builder of parametrised SQL.     *)
(* A dict is the sequence of its (key, value) items in insertion order, a  *)
(* list the sequence of its elements.                                      *)
(***************************************************************************)
PyDict(items) == [k |-> "dict", items |-> items]

PyList(items) == [k |-> "list", items |-> items]

\* bool(x) as `if x` / `not x` evaluate it
Truthy(x) ==
    IF x.k = "None" THEN FALSE
    ELSE IF x.k = "str" THEN x.s # ""
    ELSE IF x.k = "int" THEN x.i # 0
    ELSE IF x.k = "bool" THEN x.b
    ELSE IF x.k \in {"dict", "list", "tuple"} THEN Len(x.items) > 0
    ELSE TRUE

\* isinstance(x, dict)
IsDict(x) == x.k = "dict"

\* list(d.keys())
Keys(d) == [i \in 1..Len(d.items) |-> d.items[i][1]]

\* sep.join(parts)
RECURSIVE Join(_, _)
Join(sep, parts) ==
    IF Len(parts) = 0 THEN ""
    ELSE IF Len(parts) = 1 THEN parts[1]
    ELSE parts[1] \o sep \o Join(sep, Tail(parts))

\* d with d[key] = value executed on it: an existing key keeps its place
SetItem(d, key, value) ==
    IF \E i \in 1..Len(d.items) : d.items[i][1] = key
    THEN PyDict([i \in 1..Len(d.items) |->
                    IF d.items[i][1] = key THEN <<key, value>> ELSE d.items[i]])
    ELSE PyDict(Append(d.items, <<key, value>>))

\* {**a, **b}
RECURSIVE Merge(_, _)
Merge(a, b) ==
    IF Len(b.items) = 0 THEN a
    ELSE Merge(SetItem(a, b.items[1][1], b.items[1][2]), PyDict(Tail(b.items)))

\* [f"{key} = :{key}" for key in values.keys()]
Terms(values) ==
    [i \in 1..Len(values.items) |-> Keys(values)[i] \o " = :" \o Keys(values)[i]]

\* [f"{key} = :set_{key}" for key in values.keys()]
SetTerms(values) ==
    [i \in 1..Len(values.items) |->
        Keys(values)[i] \o " = :set_" \o Keys(values)[i]]

\* [f":{key}" for key in values.keys()]
Placeholders(values) == [i \in 1..Len(values.items) |-> ":" \o Keys(values)[i]]

\* {f"set_{k}": v for k, v in values.items()}
Prefixed(values) ==
    PyDict([i \in 1..Len(values.items) |->
                <<"set_" \o values.items[i][1], values.items[i][2]>>])

\* if where_parts: query += " WHERE " + " AND ".join(where_parts)
Where(query, where_parts) ==
    IF Len(where_parts) = 0 THEN query
    ELSE query \o " WHERE " \o Join(" AND ", where_parts)

\* values.keys() on a value that is not a dict
NoKeysError(x) ==
    PyExc("AttributeError",
          <<PyStr("'" \o x.k \o "' object has no attribute 'keys'")>>)

BuildError(msg) == PyExc("Exception", <<PyStr(msg)>>)

\* what one call of a build method leaves behind: the fields of the
\* instance and what the caller gets
Built(self, out) == [qm |-> self, out |-> out]

\* a plausible slip: select takes over count's elif
select_where_parts_mut(self) ==
    IF Truthy(self.values) THEN Terms(self.values)
    ELSE IF Truthy(self.condition) THEN <<self.condition.s>>
    ELSE <<>>

\* select: where_parts
select_where_parts(self) ==
    (IF Truthy(self.values) THEN Terms(self.values) ELSE <<>>)
    \o (IF Truthy(self.condition) THEN <<self.condition.s>> ELSE <<>>)

\* select: the text stored into self.columns
select_columns(columns) ==
    IF columns.k = "None" THEN "*"
    ELSE IF columns.k = "str" THEN Join(", ", <<columns.s>>)
    ELSE Join(", ", [i \in 1..Len(columns.items) |-> columns.items[i].s])

\* a plausible slip: the statement is started only when none is stored yet
select_mut(self, values) ==
    LET s1 == IF values # PyNone THEN [self EXCEPT !.values = values] ELSE self
    IN IF s1.columns.k \notin {"None", "str", "list", "tuple"}
       THEN Built(s1, Raises(BuildError("`columns` inválido: <class '"
                                        \o s1.columns.k \o "'>")))
       ELSE LET s2 == [s1 EXCEPT !.columns = PyStr(select_columns(s1.columns))]
                s3 == IF s2.query = PyNone
                      THEN [s2 EXCEPT !.query =
                               PyStr("SELECT " \o s2.columns.s
                                     \o " FROM " \o s2.table)]
                      ELSE s2
            IN IF Truthy(s3.values) /\ ~IsDict(s3.values)
               THEN Built(s3, Raises(NoKeysError(s3.values)))
               ELSE Built([s3 EXCEPT !.query =
                              PyStr(Where(s3.query.s, select_where_parts(s3)))],
                          Returns(PyNone))

\* QueryModel.select
select(self, values) ==
    LET s1 == IF values # PyNone THEN [self EXCEPT !.values = values] ELSE self
    IN IF s1.columns.k \notin {"None", "str", "list", "tuple"}
       THEN Built(s1, Raises(BuildError("`columns` inválido: <class '"
                                        \o s1.columns.k \o "'>")))
       ELSE LET s2 == [s1 EXCEPT !.columns = PyStr(select_columns(s1.columns))]
                s3 == [s2 EXCEPT !.query =
                          PyStr("SELECT " \o s2.columns.s
                                \o " FROM " \o s2.table)]
            IN IF Truthy(s3.values) /\ ~IsDict(s3.values)
               THEN Built(s3, Raises(NoKeysError(s3.values)))
               ELSE Built([s3 EXCEPT !.query =
                              PyStr(Where(s3.query.s, select_where_parts(s3)))],
                          Returns(PyNone))

\* QueryModel.insert
insert(self) ==
    IF ~IsDict(self.values)
    THEN Built(self, Raises(BuildError("values não é um Map (Obrigatório)")))
    ELSE Built([self EXCEPT !.query =
                   PyStr("INSERT INTO " \o self.table
                         \o " (" \o Join(", ", Keys(self.values))
                         \o ") VALUES ("
                         \o Join(", ", Placeholders(self.values)) \o ")")],
               Returns(PyNone))

\* a plausible slip: only the type of values is tested, as insert does
delete_mut(self) ==
    IF ~IsDict(self.values)
    THEN Built(self, Raises(BuildError(
            "Para deletar, forneça um dicionário de condições em 'values'.")))
    ELSE Built([self EXCEPT !.query =
                   PyStr("DELETE FROM " \o self.table \o " WHERE "
                         \o Join(" AND ", Terms(self.values)))],
               Returns(PyNone))

\* QueryModel.delete
delete(self) ==
    IF ~Truthy(self.values) \/ ~IsDict(self.values)
    THEN Built(self, Raises(BuildError(
            "Para deletar, forneça um dicionário de condições em 'values'.")))
    ELSE Built([self EXCEPT !.query =
                   PyStr("DELETE FROM " \o self.table \o " WHERE "
                         \o Join(" AND ", Terms(self.values)))],
               Returns(PyNone))

\* a plausible slip: the two maps are merged in the other order
update_values_mut(self_values, new_values) ==
    Merge(self_values, Prefixed(new_values))

\* update: the bind map stored into self.values
update_values(self_values, new_values) ==
    Merge(Prefixed(new_values), self_values)

\* QueryModel.update; new_query is None or another QueryModel, which is
\* truthy whatever its fields hold
update(self, new_query) ==
    IF ~Truthy(self.values) \/ ~IsDict(self.values)
    THEN Built(self, Raises(BuildError(
            "Forneça um dicionário de condições em 'values' para a cláusula WHERE.")))
    ELSE IF new_query = PyNone \/ ~IsDict(new_query.values)
    THEN Built(self, Raises(BuildError(
            "Forneça um dicionário de dados a serem atualizados em 'new_query.values' para a cláusula SET.")))
    ELSE Built([self EXCEPT
                   !.query = PyStr("UPDATE " \o self.table \o " SET "
                                   \o Join(", ", SetTerms(new_query.values))
                                   \o " WHERE "
                                   \o Join(" AND ", Terms(self.values))),
                   !.values = update_values(self.values, new_query.values)],
               Returns(PyNone))

\* a plausible slip: count takes over select's two independent tests
count_where_parts_mut(self) ==
    (IF Truthy(self.values) THEN Terms(self.values) ELSE <<>>)
    \o (IF Truthy(self.condition) THEN <<self.condition.s>> ELSE <<>>)

\* count: where_parts
count_where_parts(self) ==
    IF Truthy(self.values) THEN Terms(self.values)
    ELSE IF Truthy(self.condition) THEN <<self.condition.s>>
    ELSE <<>>

\* QueryModel.count
count(self) ==
    LET s1 == [self EXCEPT !.query =
                  PyStr("SELECT COUNT(*) as total FROM " \o self.table)]
    IN IF Truthy(s1.values) /\ ~IsDict(s1.values)
       THEN Built(s1, Raises(NoKeysError(s1.values)))
       ELSE Built([s1 EXCEPT !.query =
                      PyStr(Where(s1.query.s, count_where_parts(s1)))],
                  Returns(PyNone))

\* a values map holds at most MaxKeys columns
MaxKeys == 2

\* column names; set_name is the name update's prefix gives to column name
KeyNames == {"id", "name", "set_name"}

Texts == {"5", "Bob"}

Dicts ==
    UNION {{PyDict(items) : items \in
              {it \in [1..n -> KeyNames \X {PyStr(t) : t \in Texts}] :
                  \A i, j \in 1..n : it[i][1] = it[j][1] => i = j}} :
           n \in 0..MaxKeys}

\* the values field: unset, a map, or a list of positional values
ValuesDomain == {PyNone, PyList(<<PyStr("5")>>)} \cup Dicts

\* the columns field: unset, one name, a list of names, or not a name at all
ColumnsDomain ==
    {PyNone, PyStr("id"), PyList(<<PyStr("id"), PyStr("name")>>), PyInt(1)}

\* the condition field: unset, empty, or a fragment
ConditionDomain == {PyNone, PyStr(""), PyStr("age > 1")}

\* the query field: unset, or a statement set by hand or by an earlier build
QueryDomain == {PyNone, PyStr("SELECT 1")}

QueryModel(table, columns, condition, values, query) ==
    [table |-> table, columns |-> columns, condition |-> condition,
     values |-> values, query |-> query]

\* the argument of select
SelectArgs ==
    {PyNone, PyDict(<<>>), PyDict(<<<<"id", PyStr("5")>>>>),
     PyDict(<<<<"id", PyStr("5")>>, <<"name", PyStr("Bob")>>>>),
     PyList(<<PyStr("5")>>)}

\* the argument of update: None, or a QueryModel of which only values is read
UpdateArgs ==
    {PyNone} \cup {QueryModel("users", PyNone, PyNone, v, PyNone) :
                      v \in ValuesDomain}

\* one build call on the instance
Method(op, arg, self) ==
    IF op = "select" THEN select(self, arg)
    ELSE IF op = "insert" THEN insert(self)
    ELSE IF op = "delete" THEN delete(self)
    ELSE IF op = "update" THEN update(self, arg)
    ELSE count(self)

\* the first build call on a fresh instance
Build(op, arg) ==
    /\ qcall = Idle
    /\ LET b == Method(op, arg, qm)
       IN /\ qm' = b.qm
          /\ qcall' = [op |-> op, arg |-> arg, pre |-> qm, out |-> b.out,
                       first |-> b.qm, n |-> 1]
    /\ UNCHANGED <<resultVars, cmdVars, dbVars, routeVars>>

Select == \E values \in SelectArgs : Build("select", values)

Insert == Build("insert", PyNone)

Delete == Build("delete", PyNone)

Update == \E new_query \in UpdateArgs : Build("update", new_query)

Count == Build("count", PyNone)

\* the same call made again, nothing changed in between
Rebuild ==
    /\ qcall # Idle
    /\ qcall.n = 1
    /\ LET b == Method(qcall.op, qcall.arg, qm)
       IN /\ qm' = b.qm
          /\ qcall' = [qcall EXCEPT !.n = 2]
    /\ UNCHANGED <<resultVars, cmdVars, dbVars, routeVars>>

QueryInit ==
    /\ qm \in {QueryModel("users", c, w, v, q) :
                  c \in ColumnsDomain, w \in ConditionDomain,
                  v \in ValuesDomain, q \in QueryDomain}
    /\ qcall = Idle
    /\ RouteIdle
    /\ DbIdle
    /\ cmd_function = PyNone
    /\ result = PyNone
    /\ last = Idle
    /\ gen = Idle
    /\ self_r = Running(PyInt(0))
    /\ op_out = Idle

QueryNext == Select \/ Insert \/ Delete \/ Update \/ Count \/ Rebuild

SpecQuery == QueryInit /\ [][QueryNext]_vars

\* the values field holds a map with at least one entry
NonEmptyMap(x) == IsDict(x) /\ Len(x.items) > 0

\* the first call returned normally
Built1(op) == qcall # Idle /\ qcall.op = op /\ qcall.out = Returns(PyNone)

\* the first call raised and left the statement as it was
Refused == qcall.out.kind = "raise" /\ qcall.first.query = qcall.pre.query

\* the first call raised one of the build errors of the module
BuildErrorRaised ==
    /\ qcall.out.kind = "raise"
    /\ qcall.out.exc.cls = "Exception"

\* a dict read as the map it is, whatever its insertion order
AsMap(d) == {d.items[i] : i \in 1..Len(d.items)}

(***************************************************************************)
(* C12: with columns unset, select(values) leaves query equal to           *)
(* 'SELECT * FROM <table>' followed, when values is non-empty or the       *)
(* condition is set, by ' WHERE ' and the terms '<k> = :<k>' for the keys  *)
(* of values in insertion order and then the condition fragment, joined by *)
(* ' AND '; the bind map is the supplied values.  'users' with             *)
(* select({id: '5'}) gives 'SELECT * FROM users WHERE id = :id' with binds *)
(* {id: '5'}.  A condition is set when it is a non-empty fragment.         *)
(***************************************************************************)
C12_SelectStar ==
    (qcall # Idle /\ qcall.op = "select" /\ qcall.pre.columns = PyNone
        /\ IsDict(qcall.arg)) =>
        LET pre == qcall.pre
            ks == Keys(qcall.arg)
            parts == [i \in 1..Len(ks) |-> ks[i] \o " = :" \o ks[i]]
                     \o (IF pre.condition \notin {PyNone, PyStr("")}
                         THEN <<pre.condition.s>> ELSE <<>>)
            base == "SELECT * FROM " \o pre.table
        IN /\ qcall.out = Returns(PyNone)
           /\ qcall.first.values = qcall.arg
           /\ qcall.first.query =
                PyStr(IF parts = <<>> THEN base
                      ELSE base \o " WHERE " \o Join(" AND ", parts))
           /\ (qcall.arg = PyDict(<<<<"id", PyStr("5")>>>>)
                 /\ pre.condition = PyNone) =>
                qcall.first.query = PyStr("SELECT * FROM users WHERE id = :id")

\* select with a two-key map on a model that has a condition: both key
\* terms and the condition are in the WHERE clause
C12_Witness ==
    /\ Built1("select")
    /\ qcall.pre.columns = PyNone
    /\ qcall.first.query =
         PyStr("SELECT * FROM users WHERE id = :id AND name = :name AND age > 1")
    /\ qcall.first.values = qcall.arg

(***************************************************************************)
(* C13: for non-empty maps W (this.values) and S (newModel.values), update *)
(* sets query to 'UPDATE <table> SET ' + the terms '<k> = :set_<k>' of S   *)
(* joined by ', ' + ' WHERE ' + the terms '<k> = :<k>' of W joined by      *)
(* ' AND ', and sets the bind map to {set_<k>: S[k]} united with W, W's    *)
(* entry winning on a key collision; a column in both S and W gets the two *)
(* entries set_<k> (new value) and <k> (WHERE value).                      *)
(***************************************************************************)
C13_UpdateBuilds ==
    (qcall # Idle /\ qcall.op = "update" /\ NonEmptyMap(qcall.pre.values)
        /\ qcall.arg # PyNone /\ NonEmptyMap(qcall.arg.values)) =>
        LET W == qcall.pre.values
            S == qcall.arg.values
            sk == Keys(S)
            wk == Keys(W)
            wkeys == {wk[i] : i \in 1..Len(wk)}
            binds == qcall.first.values
        IN /\ qcall.out = Returns(PyNone)
           /\ qcall.first.query =
                PyStr("UPDATE " \o qcall.pre.table \o " SET "
                      \o Join(", ", [i \in 1..Len(sk) |->
                                        sk[i] \o " = :set_" \o sk[i]])
                      \o " WHERE "
                      \o Join(" AND ", [i \in 1..Len(wk) |->
                                           wk[i] \o " = :" \o wk[i]]))
           /\ IsDict(binds)
           /\ Cardinality(AsMap(binds)) = Len(binds.items)
           /\ \A i, j \in 1..Len(binds.items) :
                binds.items[i][1] = binds.items[j][1] => i = j
           /\ AsMap(binds) =
                AsMap(W) \cup {<<"set_" \o S.items[i][1], S.items[i][2]>> :
                                 i \in {j \in 1..Len(sk) :
                                          ("set_" \o sk[j]) \notin wkeys}}
           /\ \A i \in 1..Len(sk) : \A j \in 1..Len(wk) :
                sk[i] = wk[j] =>
                    /\ <<wk[j], W.items[j][2]>> \in AsMap(binds)
                    /\ ("set_" \o sk[i]) \notin wkeys =>
                         <<"set_" \o sk[i], S.items[i][2]>> \in AsMap(binds)

\* W = {set_name: '5'} and S = {name: 'Bob'} collide on set_name: the bind
\* map keeps W's entry
C13_Witness ==
    /\ Built1("update")
    /\ qcall.pre.values = PyDict(<<<<"set_name", PyStr("5")>>>>)
    /\ qcall.arg.values = PyDict(<<<<"name", PyStr("Bob")>>>>)
    /\ qcall.first.query =
         PyStr("UPDATE users SET name = :set_name WHERE set_name = :set_name")
    /\ AsMap(qcall.first.values) = {<<"set_name", PyStr("5")>>}

(***************************************************************************)
(* C14: insert() raises a build error, and leaves query unchanged,         *)
(* whenever values is missing, is not a map, or is an empty map; only for  *)
(* a non-empty map does it build                                           *)
(* 'INSERT INTO <table> (<cols>) VALUES (:<cols>)'.                        *)
(***************************************************************************)
C14_InsertNeedsEntries ==
    (qcall # Idle /\ qcall.op = "insert") =>
        IF NonEmptyMap(qcall.pre.values)
        THEN /\ qcall.out = Returns(PyNone)
             /\ qcall.first.query =
                  PyStr("INSERT INTO " \o qcall.pre.table \o " ("
                        \o Join(", ", Keys(qcall.pre.values)) \o ") VALUES ("
                        \o Join(", ", [i \in 1..Len(qcall.pre.values.items) |->
                                          ":" \o Keys(qcall.pre.values)[i]])
                        \o ")")
        ELSE Refused

(***************************************************************************)
(* C15: update(newModel) raises a build error, leaving query and values    *)
(* unchanged, whenever this.values (WHERE data) or newModel.values (SET    *)
(* data) is missing, is not a map, or is an empty map.                     *)
(***************************************************************************)
C15_UpdateNeedsBothMaps ==
    (qcall # Idle /\ qcall.op = "update"
        /\ (\/ ~NonEmptyMap(qcall.pre.values)
            \/ qcall.arg = PyNone
            \/ ~NonEmptyMap(qcall.arg.values))) =>
        /\ Refused
        /\ BuildErrorRaised
        /\ qcall.first.values = qcall.pre.values

(***************************************************************************)
(* C16: delete() and update() never produce a statement without a WHERE    *)
(* term: whenever query is set by delete or update it contains ' WHERE '   *)
(* followed by at least one '<k> = :<k>' term; with missing or empty       *)
(* values they raise and query stays as it was.                            *)
(***************************************************************************)
C16_AlwaysWhere ==
    (qcall # Idle /\ qcall.op \in {"delete", "update"}) =>
        LET pre == qcall.pre
            head == IF qcall.op = "delete"
                    THEN "DELETE FROM " \o pre.table
                    ELSE "UPDATE " \o pre.table \o " SET "
                         \o Join(", ", SetTerms(qcall.arg.values))
            wk == IF IsDict(pre.values) THEN Keys(pre.values) ELSE <<>>
        IN /\ qcall.out.kind \in {"return", "raise"}
           /\ qcall.out.kind = "return" =>
                /\ Len(wk) >= 1
                /\ qcall.first.query =
                     PyStr(head \o " WHERE "
                           \o Join(" AND ", [i \in 1..Len(wk) |->
                                                wk[i] \o " = :" \o wk[i]]))
           /\ qcall.out.kind = "raise" => qcall.first.query = pre.query
           /\ ~NonEmptyMap(pre.values) => Refused

\* delete with a two-key map: both keys are WHERE terms
C16_Witness ==
    /\ Built1("delete")
    /\ Len(qcall.pre.values.items) = 2
    /\ qcall.first.query =
         PyStr("DELETE FROM users WHERE id = :id AND name = :name")

(***************************************************************************)
(* C17: count() builds a 'SELECT COUNT( * ) ... FROM <table>' statement and *)
(* applies exactly one WHERE source: the equality terms '<k> = :<k>' of    *)
(* values when values is non-empty (the condition fragment is then         *)
(* ignored), otherwise the condition fragment when it is set, otherwise no *)
(* WHERE clause.  values is a map or unset.                                *)
(***************************************************************************)
C17_CountOneWhereSource ==
    (qcall # Idle /\ qcall.op = "count"
        /\ (IsDict(qcall.pre.values) \/ ~Truthy(qcall.pre.values))) =>
        LET pre == qcall.pre
            base == "SELECT COUNT(*) as total FROM " \o pre.table
            wk == IF IsDict(pre.values) THEN Keys(pre.values) ELSE <<>>
        IN /\ qcall.out = Returns(PyNone)
           /\ qcall.first.values = pre.values
           /\ qcall.first.query =
                PyStr(IF Len(wk) > 0
                      THEN base \o " WHERE "
                           \o Join(" AND ", [i \in 1..Len(wk) |->
                                                wk[i] \o " = :" \o wk[i]])
                      ELSE IF pre.condition \notin {PyNone, PyStr("")}
                      THEN base \o " WHERE " \o pre.condition.s
                      ELSE base)

\* count on a model with both a map and a condition: only the map's term
\* is in the WHERE clause
C17_Witness ==
    /\ Built1("count")
    /\ qcall.pre.condition = PyStr("age > 1")
    /\ qcall.pre.values = PyDict(<<<<"id", PyStr("5")>>>>)
    /\ qcall.first.query =
         PyStr("SELECT COUNT(*) as total FROM users WHERE id = :id")

(***************************************************************************)
(* C18 as stated: calling the same build method (select, insert, update,   *)
(* delete or count) twice in a row with the same arguments, with no change *)
(* made by the caller in between, leaves the same query string and the     *)
(* same bind map as calling it once.                                       *)
(***************************************************************************)
C18_RebuildSame ==
    (qcall # Idle /\ qcall.n = 2) =>
        /\ qm.query = qcall.first.query
        /\ qm.values = qcall.first.values

(***************************************************************************)
(* C18 as the code has it: select, insert, delete and count called twice   *)
(* in a row with the same arguments leave the same query string and bind   *)
(* map as calling them once, and so does an update that raised; an update  *)
(* that built a statement has replaced values by the merged bind map, so   *)
(* the second update builds its WHERE clause from the keys of the merged   *)
(* map (the bind map itself holds the same entries).                       *)
(***************************************************************************)
C18_RebuildSameUnlessUpdated ==
    (qcall # Idle /\ qcall.n = 2) =>
        IF qcall.op = "update" /\ qcall.out.kind = "return"
        THEN /\ qm.query.s =
                  "UPDATE " \o qm.table \o " SET "
                  \o Join(", ", SetTerms(qcall.arg.values)) \o " WHERE "
                  \o Join(" AND ", Terms(qcall.first.values))
             /\ AsMap(qm.values) = AsMap(qcall.first.values)
        ELSE /\ qm.query = qcall.first.query
             /\ qm.values = qcall.first.values

\* select({id: '5'}) made twice on a model with a list of columns: the
\* second call finds columns already joined and builds the same statement
C18_Witness ==
    /\ qcall # Idle
    /\ qcall.n = 2
    /\ qcall.op = "select"
    /\ qcall.pre.columns.k = "list"
    /\ qcall.pre.query = PyNone
    /\ qcall.arg = PyDict(<<<<"id", PyStr("5")>>>>)
    /\ qm.query = PyStr("SELECT id, name FROM users WHERE id = :id")
    /\ qm.query = qcall.first.query

(***************************************************************************)
(* The open-door route (main.py) over ApiRepository.open_door.  A world    *)
(* fixes what the request holds and what each collaborator of open_door    *)
(* does if it is called.                                                   *)
(***************************************************************************)
\* DatabaseRepository.select: rows, a Failure, or an exception (a build
\* error of the query, a row the model rejects)
SelectOutcomes(row) ==
    {Returns(Success(PyList(rows), PyNone, PyStr("Select All executado com sucesso"))) :
        rows \in {<<>>, <<PyStr(row)>>}}
    \cup {Returns(Failure(DbError, PyStr("None"),
                          PyStr("Erro ao executar Select All"), FALSE)),
          Raises(Boom)}

\* FaceModel._encoding_array on the encodings of a stored profile
EncodingOutcomes ==
    {Success1(PyStr("ndarray")), Failure1(PyStr("Encoding inválido"))}

\* FaceRepository.match_face_to_profiles_async
MatchOutcomes ==
    {Returns(Success(PyStr("perfil"), PyNone, PyStr("Rosto reconhecido"))),
     Returns(Failure(PyStr("Acesso negado: rosto não reconhecido"),
                     PyStr("Nenhum perfil corresponde ao rosto detectado"),
                     PyStr("Acesso Negado"), FALSE)),
     Returns(Failure(PyStr("Erro ao comparar rosto com perfis"), PyStr("boom"),
                     PyStr("Erro Match"), TRUE))}

\* models.device_model.DeviceModel; the ip field is never read here
DeviceModel(mac, local) == [k |-> "DeviceModel", mac |-> mac, local |-> local]

\* DeviceModel.model_dump: both keys, whatever the arguments and the fields
model_dump(self) == PyDict(<<<<"mac", self.mac>>, <<"local", self.local>>>>)

\* the devices a request can name
Devices ==
    {DeviceModel(mac, local) :
        mac \in {PyNone, PyStr("24:6f:28:aa:bb:cc")},
        local \in {PyNone, PyStr("Laboratório 1")}}

DoorWorlds ==
    [device_data : {model_dump(d) : d \in Devices},
     select_dispositivos : SelectOutcomes("device"),
     select_perfis : SelectOutcomes("perfil"),
     encoding_array : EncodingOutcomes,
     get_first_face_encoding_async : FaceOutcomes,
     match_face_to_profiles_async : MatchOutcomes]

\* ApiRepository.open_door(device_data): what awaiting it gives
open_door(w) ==
    IF ~Truthy(w.device_data)
    THEN Returns(Failure(PyStr("Erro ao ler dados do dispositivo"),
                         PyStr("Dados do dispositivo inválidos"),
                         PyStr("Erro Device"), TRUE))
    ELSE IF w.select_dispositivos.kind = "raise" THEN w.select_dispositivos
    ELSE IF is_failure(w.select_dispositivos.value)
    THEN Returns(Failure(PyStr("Erro ao buscar dispositivo"),
                         w.select_dispositivos.value.value,
                         PyStr("Erro Device"), TRUE))
    ELSE IF w.select_perfis.kind = "raise" THEN w.select_perfis
    ELSE IF is_failure(w.select_perfis.value)
    THEN Returns(Failure(PyStr("Erro ao encontrar perfis"),
                         w.select_perfis.value.value,
                         PyStr("Erro Perfis"), TRUE))
    ELSE IF Len(w.select_perfis.value.value.items) > 0
            /\ is_failure(w.encoding_array)
    THEN Returns(Failure(PyStr("Erro ao processar encodings do perfil"),
                         w.encoding_array.value, PyStr("Erro Encode"), TRUE))
    ELSE IF w.get_first_face_encoding_async.kind = "raise"
    THEN w.get_first_face_encoding_async
    ELSE IF is_failure(w.get_first_face_encoding_async.value)
    THEN Returns(Failure(PyStr("Erro ao obter rosto para comparação"),
                         w.get_first_face_encoding_async.value.value,
                         PyStr("Erro Face"), TRUE))
    ELSE LET match == w.match_face_to_profiles_async.value
         IN IF is_failure(match)
            THEN IF match.error
                 THEN Returns(Failure(PyStr("Erro ao comparar rosto com perfis"),
                                      match.value, PyStr("Erro Match"), TRUE))
                 ELSE Returns(Failure(PyStr("Rosto não reconhecido"),
                                      match.value, PyStr("Acesso Negado"), FALSE))
            ELSE IF ~Truthy(match.value)
            THEN Returns(Failure(PyStr("Acesso negado: rosto não autorizado"),
                                 PyStr("Nenhum perfil corresponde ao rosto detectado"),
                                 PyStr("Acesso Negado"), FALSE))
            ELSE Returns(Success(match.value,
                                 PyStr("Rosto reconhecido e comparado com sucesso"),
                                 PyStr("Porta Aberta")))

\* `lambda: api_repository.open_door(device_model)`: calling it builds the
\* coroutine of open_door
DoorOp(w) == [k |-> "coroutine_function", does |-> open_door(w), w |-> w]

\* main.Response
Response(code, log, details, data) ==
    [code |-> code, log |-> log, details |-> details, data |-> data]

\* the route from `if result.is_failure:` to its first return
door_failure_response(r) ==
    Response(IF r.error THEN 500 ELSE 403, r.log, PyNone, r)

\* the route after open_door succeeded: the history entry, then the answer
door_success_response(r, h) ==
    IF h.kind = "raise" THEN h
    ELSE LET result_his == register_historic(h.value)
         IN IF is_failure(result_his)
            THEN Returns(Response(500, result_his.value, result_his.details,
                                  PyNone))
            ELSE Returns(Response(200, r.log, PyNone, r))

\* POST /open_door up to `result = await command.execute_async()`
DoorExecute ==
    /\ route = Idle
    /\ LET e == execute_async(cmd_function, result, PyNone)
       IN /\ cmd_function' = e.function
          /\ result' = e.result
          /\ last' = [op |-> "execute_async", function |-> e.function,
                      out |-> e.out, caught |-> e.caught, supplied |-> PyNone]
          /\ route' = [op |-> "open_door", pc |-> "executed", out |-> e.out]
    /\ UNCHANGED <<gen, resultVars, dbVars, queryVars>>

\* POST /open_door from `if result.is_failure:` to the response
DoorRespond ==
    /\ route # Idle
    /\ route.pc = "executed"
    /\ route.out.kind = "return"
    /\ LET r == route.out.value
       IN IF is_failure(r)
          THEN route' = [op |-> "open_door", pc |-> "responded",
                         out |-> Returns(door_failure_response(r))]
          ELSE \E h \in HistoricOutcomes :
                 route' = [op |-> "open_door", pc |-> "responded",
                           out |-> door_success_response(r, h)]
    /\ UNCHANGED <<cmdVars, resultVars, dbVars, queryVars>>

DoorInit ==
    /\ cmd_function \in {DoorOp(w) : w \in DoorWorlds}
    /\ result = PyNone
    /\ last = Idle
    /\ gen = Idle
    /\ route = Idle
    /\ DbIdle
    /\ QueryIdle
    /\ self_r = Running(PyInt(0))
    /\ op_out = Idle

DoorNext == DoorExecute \/ DoorRespond

SpecDoor == DoorInit /\ [][DoorNext]_vars

\* the route has answered with a response
Answered == route # Idle /\ route.pc = "responded" /\ route.out.kind = "return"

\* the Failure names a datastore or vision error of open_door
ReportsFault(r) ==
    /\ is_failure(r)
    /\ r.log \in {PyStr("Erro Device"), PyStr("Erro Perfis"), PyStr("Erro Encode"),
                 PyStr("Erro Face"), PyStr("Erro Match")}

\* the Failure names a recognised refusal: face not recognised or not authorised
ReportsRejection(r) ==
    /\ is_failure(r)
    /\ r.log = PyStr("Acesso Negado")

(***************************************************************************)
(* C26: in the open-door route every execution fault (an exception raised  *)
(* inside the wrapped open_door operation and caught by AsyncCommand, or a *)
(* datastore/vision error reported by open_door) is answered with status   *)
(* 500; status 403 is answered only for a recognized domain rejection      *)
(* (face not recognized or not authorized), and 200 only for a Success.    *)
(***************************************************************************)
C26_FaultsAnswered500 ==
    Answered =>
        LET code == route.out.value.code
        IN /\ (last.caught # PyNone \/ ReportsFault(result)) => code = 500
           /\ code = 403 => ReportsRejection(result)
           /\ code = 200 => is_success(result)

\* the rows the device lookup of the request returned, <<>> when it returned
\* none or did not return
DevicesFound ==
    LET o == cmd_function.w.select_dispositivos
    IN IF o.kind = "return" /\ is_success(o.value) THEN o.value.value.items
       ELSE <<>>

(***************************************************************************)
(* C34: open_door returns Success (door opened) only if the device lookup  *)
(* returned at least one registered device matching the request's device   *)
(* data; for a device that is not in the devices table it returns a        *)
(* Failure and never a Success.                                            *)
(***************************************************************************)
C34_SuccessOnlyForRegisteredDevice ==
    (route # Idle /\ route.op = "open_door" /\ route.out.kind = "return"
        /\ route.pc = "executed") =>
        /\ is_success(route.out.value) => Len(DevicesFound) >= 1
        /\ Len(DevicesFound) = 0 => is_failure(route.out.value)

(***************************************************************************)
(* Command.execute_with_param and AsyncCommand.execute_async_with_param.   *)
(* A factory is a callable of one parameter; what it returns is the        *)
(* derived operation.                                                      *)
(***************************************************************************)
\* the parameters handed to the two methods
Params == {PyInt(i) : i \in 0..MaxVal}

\* `lambda q: Success(p + q)`, the operation a currying factory derives from p
Curried(p) == [k |-> "function1", p |-> p]

\* the coroutine object of `async def f(p): return Success(p)` called with p
Coroutine1(p) == [k |-> "coroutine1", p |-> p]

\* a factory: curry is `lambda p: lambda q: Success(p + q)`, coro is
\* `async def f(p): return Success(p)`, none returns None, raise raises
Factory(kind) == [k |-> "factory", kind |-> kind]

Factories == {Factory(kind) : kind \in {"curry", "coro", "none", "raise"}}

\* the closure `async def wrapper(): return await function(param)`
WrapperParam(function, param) ==
    [k |-> "wrapper1", function |-> function, param |-> param]

\* the call function(param) on a factory
CallFactory(function, param) ==
    CASE function.kind = "curry" -> Returns(Curried(param))
      [] function.kind = "coro" -> Returns(Coroutine1(param))
      [] function.kind = "none" -> Returns(PyNone)
      [] OTHER -> Raises(Boom)

\* the call fn(param) on whatever is stored in _function
Call1(fn, param) ==
    IF fn.k = "function1" THEN Returns(Success1(PyInt(fn.p.i + param.i)))
    ELSE IF fn.k = "factory" THEN CallFactory(fn, param)
    ELSE IF fn.k = "wrapper1"
    THEN Raises(TypeError("wrapper() takes 0 positional arguments but 1 was given"))
    ELSE Raises(TypeError("object is not callable"))

\* `await x` inside wrapper and inside execute_async_with_param
Await1(x) ==
    IF HasKind(x, "coroutine1") THEN Returns(Success1(x.p))
    ELSE IF HasKind(x, "coroutine_of")
    THEN LET c == CallFactory(x.fn.function, x.fn.param)
         IN IF c.kind = "raise" THEN c
            ELSE IF HasKind(c.value, "coroutine1")
            THEN Returns(Success1(c.value.p))
            ELSE Raises(TypeError("object can't be used in 'await' expression"))
    ELSE Raises(TypeError("object can't be used in 'await' expression"))

\* the call fn() on whatever is stored in _function
Call0(fn) ==
    IF fn.k = "wrapper1" THEN Returns([k |-> "coroutine_of", fn |-> fn])
    ELSE Raises(TypeError("missing 1 required positional argument"))

\* Command.execute_with_param(param, function)
execute_with_param(stored, res, param, function) ==
    LET derived == IF function # PyNone THEN CallFactory(function, param)
                   ELSE Returns(stored)
    IN IF derived.kind = "raise"
       THEN CallEffect(derived, stored, res, PyNone)
       ELSE LET fn == derived.value
            IN IF fn = PyNone
               THEN CallEffect(Raises(NoFunctionError("Command")), fn, res, PyNone)
               ELSE LET c == Call1(fn, param)
                    IN IF c.kind = "raise"
                       THEN CallEffect(Returns(Failure1(c.exc)), fn,
                                       Failure1(c.exc), c.exc)
                       ELSE CallEffect(Returns(c.value), fn, c.value, PyNone)

\* AsyncCommand.execute_async_with_param(param, function)
execute_async_with_param(stored, res, param, function) ==
    LET fn == IF function # PyNone THEN WrapperParam(function, param)
              ELSE stored
    IN IF fn = PyNone
       THEN CallEffect(Raises(NoFunctionError("AsyncCommand")), fn, res, PyNone)
       ELSE LET c == Call0(fn)
                a == IF c.kind = "raise" THEN c ELSE Await1(c.value)
            IN IF a.kind = "raise"
               THEN CallEffect(Returns(AsyncFailure(a.exc)), fn,
                               AsyncFailure(a.exc), a.exc)
               ELSE CallEffect(Returns(a.value), fn, a.value, PyNone)

ExecuteWithParam ==
    /\ \E param \in Params, function \in {PyNone} \cup Factories :
          LET e == execute_with_param(cmd_function, result, param, function)
          IN /\ cmd_function' = e.function
             /\ result' = e.result
             /\ last' = [op |-> "execute_with_param", function |-> e.function,
                         out |-> e.out, caught |-> e.caught,
                         supplied |-> function, param |-> param]
    /\ UNCHANGED <<gen, resultVars, dbVars, queryVars, routeVars>>

ExecuteAsyncWithParam ==
    /\ \E param \in Params, function \in {PyNone} \cup Factories :
          LET e == execute_async_with_param(cmd_function, result, param, function)
          IN /\ cmd_function' = e.function
             /\ result' = e.result
             /\ last' = [op |-> "execute_async_with_param",
                         function |-> e.function, out |-> e.out,
                         caught |-> e.caught, supplied |-> function,
                         param |-> param]
    /\ UNCHANGED <<gen, resultVars, dbVars, queryVars, routeVars>>

\* a command constructed without an operation
ParamInit ==
    /\ cmd_function = PyNone
    /\ result = PyNone
    /\ last = Idle
    /\ gen = Idle
    /\ DbIdle
    /\ QueryIdle
    /\ RouteIdle
    /\ self_r = Running(PyInt(0))
    /\ op_out = Idle

ParamNext == ExecuteWithParam \/ ExecuteAsyncWithParam

SpecParam == ParamInit /\ [][ParamNext]_vars

\* the last call supplied a factory whose call with the parameter returned
\* an operation
Derived ==
    /\ last # Idle
    /\ last.supplied # PyNone
    /\ CallFactory(last.supplied, last.param).kind = "return"
    /\ CallFactory(last.supplied, last.param).value # PyNone

(***************************************************************************)
(* C30: execute_async_with_param follows the same contract as              *)
(* execute_with_param: for every factory f and parameter p, both           *)
(* execute_with_param(p, f) and execute_async_with_param(p, f) return the  *)
(* result of invoking f(p) with p, and both leave f(p) as the stored       *)
(* operation.                                                              *)
(***************************************************************************)
C30_SameContractWithParam ==
    Derived =>
        LET fp == CallFactory(last.supplied, last.param).value
            fpp == Call1(fp, last.param)
        IN /\ cmd_function = fp
           /\ fpp.kind = "return" => last.out = Returns(fpp.value)
           /\ fpp.kind = "raise" =>
                (last.out.kind = "return" /\ is_failure(last.out.value))

(***************************************************************************)
(* ApiRepository.user_is_admin and update_user_table, down to the query    *)
(* they hand to DatabaseRepository.  The datastore's answer to the         *)
(* statement is an input of each call.                                     *)
(***************************************************************************)
\* the largest row count the datastore reports
MaxRows == 2

\* ApiUtils._hash_sha256: the digest is a text other than the text hashed
hash_sha256(s) == PyStr("sha256(" \o s.s \o ")")

\* PermissionEnum.ADMINISTRADOR and PermissionEnum.DISCENTE
ADMINISTRADOR == PyStr("ADMINISTRADOR")

DISCENTE == PyStr("DISCENTE")

\* models.login_model.LoginModel
LoginModel(email, senha, permission_level) ==
    [k |-> "LoginModel", email |-> email, senha |-> senha,
     permission_level |-> permission_level]

\* LoginModel.serialize, the @model_serializer that model_dump returns
serialize(self) ==
    PyDict(<<<<"email", self.email>>, <<"senha", hash_sha256(self.senha)>>>>)

\* the principals a request can name
Logins ==
    {LoginModel(PyStr(e), PyStr(p), l) :
        e \in {"ana@ifce.br", "bob@ifce.br"}, p \in {"pw", "1234"},
        l \in {ADMINISTRADOR, DISCENTE}}

\* what DatabaseCommand.execute_query returns for a statement whose data is
\* drawn from `data`
ExecuteQueryResults(data) ==
    {Success1(d) : d \in data}
    \cup {Failure(PyStr("Erro ao executar a query"), PyStr("boom"), PyNone, FALSE),
          Failure(PyStr("Erro ao conectar ao banco de dados"),
                  PyStr("Erro ao se conectar ao DB"), PyNone, FALSE)}

\* the row of SELECT COUNT( * ) as total
CountRows == {PyDict(<<<<"total", PyInt(n)>>>>) : n \in 0..MaxRows}

\* the affected-row count of an UPDATE
RowCounts == {PyInt(n) : n \in 0..MaxRows}

\* DatabaseRepository.count / update after the query is built: the Result
\* of execute_query is wrapped again
repository_result(res, name) ==
    IF is_success(res)
    THEN Success(res.value, PyNone, PyStr(name \o " executado com sucesso"))
    ELSE Failure(res.value, str(res.details),
                 PyStr("Erro ao executar " \o name), FALSE)

\* d.get(key)
Get(d, key) ==
    IF \E i \in 1..Len(d.items) : d.items[i][1] = key
    THEN d.items[CHOOSE i \in 1..Len(d.items) : d.items[i][1] = key][2]
    ELSE PyNone

\* what a repository call leaves behind: the query handed to the datastore
\* and what the caller gets
RepoEffect(query, out) == [query |-> query, out |-> out]

\* ApiRepository.user_is_admin(user_data), given what execute_query returns
user_is_admin(user_data, executed) ==
    LET u == [user_data EXCEPT !.permission_level = ADMINISTRADOR]
        b == count(QueryModel("perfis", PyNone, PyNone, serialize(u), PyNone))
        res == repository_result(executed, "Count")
    IN IF b.out.kind = "raise" THEN RepoEffect(b.qm, b.out)
       ELSE IF is_failure(res)
       THEN RepoEffect(b.qm,
                Returns(Failure(PyStr("Erro ao verificar permissões do usuário"),
                                res.value, PyNone, FALSE)))
       ELSE IF Get(res.value, "total").i > 0
       THEN RepoEffect(b.qm,
                Returns(Success(PyBool(TRUE), PyNone,
                                PyStr("Usuário é um administrador"))))
       ELSE RepoEffect(b.qm,
                Returns(Success(PyBool(FALSE), PyNone,
                                PyStr("Usuario não é um administrador"))))

\* a plausible slip: `> 2` for `>= 2`
update_user_table_mut(user_data_dict, new_user_data_dict, executed) ==
    LET b == update(QueryModel("perfis", PyNone, PyNone, user_data_dict, PyNone),
                    QueryModel("perfis", PyNone, PyNone, new_user_data_dict, PyNone))
        res == repository_result(executed, "Update")
    IN IF b.out.kind = "raise" THEN RepoEffect(b.qm, b.out)
       ELSE IF is_failure(res)
       THEN RepoEffect(b.qm,
                Returns(Failure(PyStr("Erro ao atualizar usuário"), res.value,
                                PyNone, FALSE)))
       ELSE IF res.value.i = 0
       THEN RepoEffect(b.qm,
                Returns(Failure(PyStr("Nenhum foi usuário atualizado"),
                                res.value, PyNone, FALSE)))
       ELSE IF res.value.i > 2
       THEN RepoEffect(b.qm,
                Returns(Failure(PyStr("Mais de um usuário foi atualizado"),
                                res.value, PyNone, FALSE)))
       ELSE RepoEffect(b.qm,
                Returns(Success(res.value, PyNone,
                                PyStr("Usuário atualizado com sucesso"))))

\* ApiRepository.update_user_table, given the two model dumps and what
\* execute_query returns
update_user_table(user_data_dict, new_user_data_dict, executed) ==
    LET b == update(QueryModel("perfis", PyNone, PyNone, user_data_dict, PyNone),
                    QueryModel("perfis", PyNone, PyNone, new_user_data_dict, PyNone))
        res == repository_result(executed, "Update")
    IN IF b.out.kind = "raise" THEN RepoEffect(b.qm, b.out)
       ELSE IF is_failure(res)
       THEN RepoEffect(b.qm,
                Returns(Failure(PyStr("Erro ao atualizar usuário"), res.value,
                                PyNone, FALSE)))
       ELSE IF res.value.i = 0
       THEN RepoEffect(b.qm,
                Returns(Failure(PyStr("Nenhum foi usuário atualizado"),
                                res.value, PyNone, FALSE)))
       ELSE IF res.value.i >= 2
       THEN RepoEffect(b.qm,
                Returns(Failure(PyStr("Mais de um usuário foi atualizado"),
                                res.value, PyNone, FALSE)))
       ELSE RepoEffect(b.qm,
                Returns(Success(res.value, PyNone,
                                PyStr("Usuário atualizado com sucesso"))))

UserIsAdmin ==
    /\ route = Idle
    /\ \E user_data \in Logins, executed \in ExecuteQueryResults(CountRows) :
          LET e == user_is_admin(user_data, executed)
          IN route' = [op |-> "user_is_admin", arg |-> user_data,
                       executed |-> executed, query |-> e.query, out |-> e.out]
    /\ UNCHANGED <<cmdVars, resultVars, dbVars, queryVars>>

UpdateUserTable ==
    /\ route = Idle
    /\ \E user_data_dict \in Dicts, new_user_data_dict \in Dicts,
          executed \in ExecuteQueryResults(RowCounts) :
          LET e == update_user_table(user_data_dict, new_user_data_dict, executed)
          IN route' = [op |-> "update_user_table", arg |-> user_data_dict,
                       executed |-> executed, query |-> e.query, out |-> e.out]
    /\ UNCHANGED <<cmdVars, resultVars, dbVars, queryVars>>

RepoInit ==
    /\ route = Idle
    /\ cmd_function = PyNone
    /\ result = PyNone
    /\ last = Idle
    /\ gen = Idle
    /\ DbIdle
    /\ QueryIdle
    /\ self_r = Running(PyInt(0))
    /\ op_out = Idle

RepoNext == UserIsAdmin \/ UpdateUserTable

SpecRepo == RepoInit /\ [][RepoNext]_vars

\* the repository call `op` has been made and returned
RepoReturned(op) == route # Idle /\ route.op = op /\ route.out.kind = "return"

(***************************************************************************)
(* C32: user_is_admin returns Success(True) only if the datastore holds a  *)
(* profile that matches the principal's credentials and has administrator  *)
(* permission level: the bind map of the count query it issues for a       *)
(* LoginModel principal contains permission_level = ADMINISTRADOR next to   *)
(* the credentials.                                                        *)
(***************************************************************************)
C32_CountBindsPermissionLevel ==
    RepoReturned("user_is_admin") =>
        /\ <<"permission_level", ADMINISTRADOR>> \in AsMap(route.query.values)
        /\ Get(route.query.values, "email") = route.arg.email
        /\ Get(route.query.values, "senha") # PyNone

(***************************************************************************)
(* C33: update_user_table returns Success exactly when the datastore       *)
(* reported one affected row; it returns a Failure when the update         *)
(* statement failed, when zero rows were affected, and when two or more    *)
(* rows were affected.                                                     *)
(***************************************************************************)
C33_SuccessIffOneRow ==
    RepoReturned("update_user_table") =>
        LET r == route.out.value
            x == route.executed
        IN /\ is_success(r) <=> (is_success(x) /\ x.value = PyInt(1))
           /\ is_failure(x) => is_failure(r)
           /\ (is_success(x) /\ x.value = PyInt(0)) => is_failure(r)
           /\ (is_success(x) /\ x.value.i >= 2) => is_failure(r)

C33_Witness ==
    /\ RepoReturned("update_user_table")
    /\ is_success(route.executed)
    /\ route.executed.value.i >= 2
    /\ route.out.value = Failure(PyStr("Mais de um usuário foi atualizado"),
                                 route.executed.value, PyNone, FALSE)

(***************************************************************************)
(* The admin routes of main.py (/find_user, /delete_user, /update_user,    *)
(* /perfis) and the ApiController methods behind them.  What each          *)
(* ApiRepository method gives is fixed per request in a world; `calls` is  *)
(* the sequence of ApiRepository methods the request has called.           *)
(***************************************************************************)
\* ApiRepository.delete_user_table
DeleteOutcomes ==
    {Returns(Success(PyInt(1), PyNone, PyStr("Usuário deletado com sucesso"))),
     Returns(Failure(PyStr("Erro ao deletar usuário"), DbError, PyNone, FALSE)),
     Raises(Boom)}

\* ApiRepository.update_user_table on a request that names one user and one
\* new field
UpdateOutcomes ==
    {update_user_table(PyDict(<<<<"id", PyStr("5")>>>>),
                       PyDict(<<<<"name", PyStr("Bob")>>>>), x).out :
        x \in ExecuteQueryResults(RowCounts)}
    \cup {Raises(Boom)}

\* ApiRepository.select_user_table
TableOutcomes ==
    {Returns(Success(PyList(<<PyStr("perfil")>>), PyNone,
                     PyStr("Tabela de usuários coletada com sucesso"))),
     Returns(Failure(PyStr("Erro ao coletar tabela de usuários"), DbError,
                     PyNone, FALSE)),
     Raises(Boom)}

\* PerfilModel(**dict(record)) of a stored profile
PerfilModel(record) == [k |-> "PerfilModel", record |-> record]

\* what a controller method or a route has done: its outcome and the
\* ApiRepository methods it called, in order
Acted(out, calls) == [out |-> out, calls |-> calls]

\* ApiController.isAdmin, given what user_is_admin gave
isAdmin(o) ==
    IF o.kind = "raise" THEN o
    ELSE IF is_failure(o.value)
    THEN Returns(Failure(PyStr("Erro ao verificar se o usuario é admin ..."),
                         o.value.value, PyNone, FALSE))
    ELSE IF Truthy(o.value.value)
    THEN Returns(Success(o.value.value, PyNone, PyStr("Usuario autorizado ...")))
    ELSE Returns(Failure(o.value.value, PyNone,
                         PyStr("Usuario não autorizado ..."), FALSE))

\* `if not auth.value: return Failure("Usuario não autorizado", ...)`
NotAuthorized(auth) ==
    Returns(Failure(PyStr("Usuario não autorizado"), auth.value, PyNone, FALSE))

\* ApiController.find_user
find_user(w) ==
    LET a == isAdmin(w.user_is_admin)
        o == w.action
    IN IF a.kind = "raise" THEN Acted(a, <<"user_is_admin">>)
       ELSE IF ~Truthy(a.value.value)
       THEN Acted(NotAuthorized(a.value), <<"user_is_admin">>)
       ELSE IF o.kind = "raise" THEN Acted(o, <<"user_is_admin", "find_user">>)
       ELSE IF is_failure(o.value)
       THEN Acted(Returns(Failure(PyStr("Erro ao encontrar usuario ..."),
                                  o.value.value, PyNone, FALSE)),
                  <<"user_is_admin", "find_user">>)
       ELSE Acted(Returns(Success(PerfilModel(o.value.value), PyNone,
                                  PyStr("Usuario encontrado com sucesso ..."))),
                  <<"user_is_admin", "find_user">>)

\* ApiController.delete_user
delete_user(w) ==
    LET a == isAdmin(w.user_is_admin)
        o == w.action
    IN IF a.kind = "raise" THEN Acted(a, <<"user_is_admin">>)
       ELSE IF ~Truthy(a.value.value)
       THEN Acted(NotAuthorized(a.value), <<"user_is_admin">>)
       ELSE IF o.kind = "raise"
       THEN Acted(o, <<"user_is_admin", "delete_user_table">>)
       ELSE IF is_failure(o.value)
       THEN Acted(Returns(Failure(PyStr("Erro ao deletar usuario ..."),
                                  o.value.value, PyNone, FALSE)),
                  <<"user_is_admin", "delete_user_table">>)
       ELSE Acted(Returns(Success(PyNone, PyNone,
                                  PyStr("Usuario deletado com sucesso ..."))),
                  <<"user_is_admin", "delete_user_table">>)

\* ApiController.update_user
update_user(w) ==
    LET a == isAdmin(w.user_is_admin)
        o == w.action
    IN IF a.kind = "raise" THEN Acted(a, <<"user_is_admin">>)
       ELSE IF ~Truthy(a.value.value)
       THEN Acted(NotAuthorized(a.value), <<"user_is_admin">>)
       ELSE IF o.kind = "raise"
       THEN Acted(o, <<"user_is_admin", "update_user_table">>)
       ELSE IF is_failure(o.value)
       THEN Acted(Returns(Failure(PyStr("Erro ao atualizar usuario ..."),
                                  o.value.value, PyNone, FALSE)),
                  <<"user_is_admin", "update_user_table">>)
       ELSE Acted(Returns(Success(PyNone, PyNone,
                                  PyStr("Usuario atualizado com sucesso ..."))),
                  <<"user_is_admin", "update_user_table">>)

\* ApiController.get_user_table, given what select_user_table returned
get_user_table(r) ==
    IF is_failure(r)
    THEN Failure(PyStr("Erro ao coletar tabela de usuarios ..."), r.value,
                 PyNone, FALSE)
    ELSE Success(r.value, PyNone, r.log)

\* a plausible slip: the `if result.log is None` branch is missing
login_mut(r) ==
    IF is_failure(r)
    THEN Failure(PyStr("Usuario não Autorizado..."), PyNone, r.log, FALSE)
    ELSE Success(PerfilModel(r.value), PyNone, PyStr("Usuario Autorizado ..."))

\* ApiController.login, given what ApiRepository.find_user returned
login(r) ==
    IF is_failure(r)
    THEN IF r.log = PyNone
         THEN Failure(PyStr("Erro ao Autorizar o login ..."), r.value, PyNone,
                      FALSE)
         ELSE Failure(PyStr("Usuario não Autorizado..."), PyNone, r.log, FALSE)
    ELSE Success(PerfilModel(r.value), PyNone, PyStr("Usuario Autorizado ..."))

\* x.model_dump() on a value that is no model
NoModelDumpError(x) ==
    PyExc("AttributeError",
          <<PyStr("'" \o x.k \o "' object has no attribute 'model_dump'")>>)

\* the routes' history entry: register_historic_from_model and the answer
\* that follows it when the entry is the last thing the route does
historic_then(w, calls, ok) ==
    LET h == w.insert_historic_table
        c == Append(calls, "insert_historic_table")
    IN IF h.kind = "raise" THEN Acted(h, c)
       ELSE IF is_failure(register_historic(h.value))
       THEN Acted(Returns(Response(500, register_historic(h.value).value,
                                   register_historic(h.value).details, PyNone)), c)
       ELSE Acted(Returns(ok), c)

\* POST /perfis
table_perfil(w) ==
    LET a == isAdmin(w.user_is_admin)
        t == w.action
        l == w.find_user
    IN IF a.kind = "raise" THEN Acted(a, <<"user_is_admin">>)
       ELSE IF Truthy(a.value.value)
       THEN IF t.kind = "raise"
            THEN Acted(t, <<"user_is_admin", "select_user_table">>)
            ELSE IF l.kind = "raise"
            THEN Acted(l, <<"user_is_admin", "select_user_table", "find_user">>)
            ELSE IF is_failure(get_user_table(t.value))
            THEN Acted(Returns(Response(500, get_user_table(t.value).value,
                                        get_user_table(t.value).details, PyNone)),
                       <<"user_is_admin", "select_user_table", "find_user">>)
            ELSE IF login(l.value).value.k # "PerfilModel"
            THEN Acted(Raises(NoModelDumpError(login(l.value).value)),
                       <<"user_is_admin", "select_user_table", "find_user">>)
            ELSE historic_then(w,
                     <<"user_is_admin", "select_user_table", "find_user">>,
                     Response(200, get_user_table(t.value).log, PyNone,
                              get_user_table(t.value).value))
       ELSE IF is_failure(a.value)
       THEN Acted(Returns(Response(403, a.value.log, a.value.details, PyNone)),
                  <<"user_is_admin">>)
       ELSE Acted(Returns(Response(401, PyStr("Acesso Negado ..."), a.value.log,
                                   PyNone)),
                  <<"user_is_admin">>)

\* the routes /find_user and /delete_user after execute_async returned r
respond_after_action(w, calls, r) ==
    IF is_failure(r)
    THEN Acted(Returns(Response(500, r.value, r.details, PyNone)), calls)
    ELSE historic_then(w, calls, Response(200, r.log, PyNone, r.value))

\* the route /update_user after execute_async returned r
respond_update_user(w, calls, r) ==
    LET h == historic_then(w, calls, Response(200, r.log, PyNone, r.value))
    IN IF h.out.kind = "raise" \/ h.out.value.code = 500 THEN h
       ELSE IF is_failure(r)
       THEN Acted(Returns(Response(500, r.value, r.details, PyNone)), h.calls)
       ELSE h

\* the controller method a route wraps in its AsyncCommand
Controller(op, w) ==
    CASE op = "find_user" -> find_user(w)
      [] op = "delete_user" -> delete_user(w)
      [] OTHER -> update_user(w)

\* `lambda: api.find_user(user_data, admin_data)` and its two siblings
AdminOp(op, w) ==
    [k |-> "coroutine_function", does |-> Controller(op, w).out, op |-> op,
     w |-> w]

\* the ApiRepository method that is the action of a route
ActionOf(op) ==
    CASE op = "find_user" -> "find_user"
      [] op = "delete_user" -> "delete_user_table"
      [] op = "update_user" -> "update_user_table"
      [] OTHER -> "select_user_table"

ActionOutcomes(op) ==
    CASE op = "find_user" -> FindOutcomes
      [] op = "delete_user" -> DeleteOutcomes
      [] op = "update_user" -> UpdateOutcomes
      [] OTHER -> TableOutcomes

AdminWorlds(op) ==
    [user_is_admin : AdminOutcomes,
     action : ActionOutcomes(op),
     find_user : IF op = "table_perfil" THEN FindOutcomes
                 ELSE {Returns(Success1(PyStr("record")))},
     insert_historic_table : HistoricOutcomes]

AdminRoutes == {"find_user", "delete_user", "update_user", "table_perfil"}

\* a request has arrived at one of the routes
Request(op, w) == [op |-> op, pc |-> "request", w |-> w]

\* a command route up to `result = await command.execute_async()`
AdminExecute ==
    /\ route # Idle
    /\ route.pc = "request"
    /\ route.op # "table_perfil"
    /\ LET e == execute_async(cmd_function, result, PyNone)
       IN /\ cmd_function' = e.function
          /\ result' = e.result
          /\ last' = [op |-> "execute_async", function |-> e.function,
                      out |-> e.out, caught |-> e.caught, supplied |-> PyNone]
          /\ route' = [op |-> route.op, pc |-> "executed", w |-> route.w,
                       out |-> e.out,
                       calls |-> Controller(route.op, route.w).calls]
    /\ UNCHANGED <<gen, resultVars, dbVars, queryVars>>

\* a command route from the line after execute_async to its return
AdminRespond ==
    /\ route # Idle
    /\ route.pc = "executed"
    /\ route.out.kind = "return"
    /\ LET r == route.out.value
           a == IF route.op = "update_user"
                THEN respond_update_user(route.w, route.calls, r)
                ELSE respond_after_action(route.w, route.calls, r)
       IN route' = [route EXCEPT !.pc = "responded", !.out = a.out,
                                 !.calls = a.calls]
    /\ UNCHANGED <<cmdVars, resultVars, dbVars, queryVars>>

\* POST /perfis from the request to its return
TablePerfil ==
    /\ route # Idle
    /\ route.pc = "request"
    /\ route.op = "table_perfil"
    /\ LET a == table_perfil(route.w)
       IN route' = [op |-> route.op, pc |-> "responded", w |-> route.w,
                    out |-> a.out, calls |-> a.calls]
    /\ UNCHANGED <<cmdVars, resultVars, dbVars, queryVars>>

AdminInit ==
    /\ route \in UNION {{Request(op, w) : w \in AdminWorlds(op)} :
                         op \in AdminRoutes}
    /\ cmd_function = (IF route.op = "table_perfil" THEN PyNone
                       ELSE AdminOp(route.op, route.w))
    /\ result = PyNone
    /\ last = Idle
    /\ gen = Idle
    /\ DbIdle
    /\ QueryIdle
    /\ self_r = Running(PyInt(0))
    /\ op_out = Idle

AdminNext == AdminExecute \/ AdminRespond \/ TablePerfil

SpecAdmin == AdminInit /\ [][AdminNext]_vars

\* the request has got past its admin check
PastAdminCheck == route # Idle /\ route.pc \in {"executed", "responded"}

\* ApiRepository method m was called while the request was served
WasCalled(m) == \E i \in 1..Len(route.calls) : route.calls[i] = m

\* the admin check succeeded and returned true
AdminConfirmed(w) ==
    /\ w.user_is_admin.kind = "return"
    /\ is_success(w.user_is_admin.value)
    /\ w.user_is_admin.value.value = PyBool(TRUE)

\* what the request got is a denial: a Failure of the controller method, or
\* a 401/403 answer of /perfis
Denied ==
    /\ route.out.kind = "return"
    /\ IF route.op = "table_perfil" THEN route.out.value.code \in {401, 403}
       ELSE (route.pc = "executed" => is_failure(route.out.value))

(***************************************************************************)
(* C31: ApiController.find_user, delete_user and update_user, and the      *)
(* table-listing route (/perfis), perform their datastore read, delete or  *)
(* update only when the admin check succeeded and returned true; when the  *)
(* admin check itself fails (datastore error) or returns false, no such    *)
(* operation is performed and a denial is returned.                        *)
(***************************************************************************)
C31_ActionOnlyForAdmin ==
    PastAdminCheck =>
        /\ WasCalled(ActionOf(route.op)) => AdminConfirmed(route.w)
        /\ (route.w.user_is_admin.kind = "return" /\ ~AdminConfirmed(route.w))
              => Denied

(***************************************************************************)
(* C35: in the admin routes update_user, delete_user and find_user, the    *)
(* audit entry saying that the admin performed the action is written to    *)
(* the history table only after the action itself returned Success; a      *)
(* failed update, delete or lookup writes no such entry.                   *)
(***************************************************************************)
C35_AuditOnlyAfterSuccess ==
    (PastAdminCheck /\ route.op # "table_perfil"
        /\ WasCalled("insert_historic_table")) => is_success(result)

(***************************************************************************)
(* POST /login: ApiRepository.find_user on the credentials, then           *)
(* ApiController.login, then the route's history entry and answer.         *)
(***************************************************************************)
\* DatabaseRepository.select_one: the build raises, or execute_query's
\* Result comes back wrapped; the row is a profile or None
SelectOneOutcomes ==
    {Returns(repository_result(x, "Select one")) :
        x \in ExecuteQueryResults({PyNone, PyStr("record")})}
    \cup {Raises(Boom)}

\* ApiRepository.find_user(user_data), given what select_one gives
repository_find_user(user_data, o) ==
    IF ~Truthy(serialize(user_data))
    THEN Returns(Failure1(PyStr("Erro ao ler dados do request")))
    ELSE IF o.kind = "raise" THEN o
    ELSE IF is_failure(o.value)
    THEN Returns(Failure(PyStr("Erro ao encontrar usuário"), o.value.value,
                         PyNone, FALSE))
    ELSE IF o.value.value = PyNone
    THEN Returns(Failure(PyStr("Usuário não encontrado"), PyNone, o.value.log,
                         FALSE))
    ELSE Returns(Success(o.value.value, PyNone,
                         PyStr("Usuário encontrado com sucesso")))

LoginWorlds ==
    [login_data : Logins,
     select_one : SelectOneOutcomes,
     insert_historic_table : HistoricOutcomes]

\* the login route from `if result.is_success:` to its return
login_response(w, r) ==
    IF is_success(r)
    THEN historic_then(w, <<"find_user">>,
                       Response(200, PyStr("Login realizado com sucesso ..."),
                                PyNone, r.value))
    ELSE IF r.details = PyNone
    THEN Acted(Returns(Response(401, PyStr("Acesso Negado ..."), PyNone, PyNone)),
               <<"find_user">>)
    ELSE Acted(Returns(Response(500, PyStr("Erro ao realizar login .."),
                                r.details, PyNone)),
               <<"find_user">>)

\* POST /login up to `result = await api.login(form)`
LoginLookup ==
    /\ route # Idle
    /\ route.pc = "request"
    /\ LET f == repository_find_user(route.w.login_data, route.w.select_one)
       IN route' = [op |-> "login", pc |-> "looked_up", w |-> route.w,
                    out |-> IF f.kind = "raise" THEN f
                            ELSE Returns(login(f.value)),
                    calls |-> <<"find_user">>]
    /\ UNCHANGED <<cmdVars, resultVars, dbVars, queryVars>>

\* POST /login from `if result.is_success:` to the answer
LoginRespond ==
    /\ route # Idle
    /\ route.pc = "looked_up"
    /\ route.out.kind = "return"
    /\ LET a == login_response(route.w, route.out.value)
       IN route' = [route EXCEPT !.pc = "responded", !.out = a.out,
                                 !.calls = a.calls]
    /\ UNCHANGED <<cmdVars, resultVars, dbVars, queryVars>>

LoginInit ==
    /\ route \in {Request("login", w) : w \in LoginWorlds}
    /\ cmd_function = PyNone
    /\ result = PyNone
    /\ last = Idle
    /\ gen = Idle
    /\ DbIdle
    /\ QueryIdle
    /\ self_r = Running(PyInt(0))
    /\ op_out = Idle

LoginNext == LoginLookup \/ LoginRespond

SpecLogin == LoginInit /\ [][LoginNext]_vars

\* the statement of the credential lookup ran without error
LookupRan(w) == w.select_one.kind = "return" /\ is_success(w.select_one.value)

\* the credential lookup failed on a datastore error
LookupFailed(w) == w.select_one.kind = "return" /\ is_failure(w.select_one.value)

\* the lookup found a profile with the credentials
UserFound(w) == LookupRan(w) /\ w.select_one.value.value # PyNone

(***************************************************************************)
(* C36: the login route answers 401 exactly when the credential lookup ran *)
(* against the datastore without error and found no matching user; it      *)
(* answers 200 only when the user was found and the login audit entry was  *)
(* recorded; it answers 500 when the lookup or the audit insert failed on  *)
(* a datastore error.                                                      *)
(***************************************************************************)
C36_LoginStatus ==
    Answered =>
        LET code == route.out.value.code
            w == route.w
        IN /\ code = 401 <=> (LookupRan(w) /\ ~UserFound(w))
           /\ code = 200 => (UserFound(w) /\ ReturnsSuccess(w.insert_historic_table))
           /\ LookupFailed(w) => code = 500
           /\ (UserFound(w) /\ ReturnsFailure(w.insert_historic_table))
                 => code = 500

C36_Witness ==
    /\ Answered
    /\ route.op = "login"
    /\ LookupFailed(route.w)
    /\ route.out.value.code = 500

(***************************************************************************)
(* One AsyncCommand shared by concurrent callers of execute_async.  A call *)
(* runs without interruption up to `await self._function()`, where other  *)
(* callers may run, and again without interruption from the resumption to  *)
(* `return self.result`.                                                   *)
(***************************************************************************)
\* the operations caller c may supply; what each gives names the caller
OwnOps(c) ==
    {AsyncOp(Returns(Success1(PyInt(c)))),
     AsyncOp(Returns(Failure1(PyInt(c)))),
     AsyncOp(Raises(PyExc("RuntimeError", <<PyInt(c)>>)))}

\* what a call has done when it reaches its await: the stored operation,
\* the coroutine it awaits, or the exception it has raised
Suspended(fn, awaiting, out) ==
    [function |-> fn, awaiting |-> awaiting, out |-> out]

\* a plausible slip: the coroutine is built from the operation that was
\* stored before the assignment
execute_async_call_mut(stored, function) ==
    LET fn == IF function # PyNone THEN Wrapper(function) ELSE stored
    IN IF fn = PyNone
       THEN Suspended(fn, PyNone, Raises(NoFunctionError("AsyncCommand")))
       ELSE Suspended(fn, CallFn(IF stored # PyNone THEN stored ELSE fn), PyNone)

\* execute_async from its first line to the call `self._function()`
execute_async_call(stored, function) ==
    LET fn == IF function # PyNone THEN Wrapper(function) ELSE stored
    IN IF fn = PyNone
       THEN Suspended(fn, PyNone, Raises(NoFunctionError("AsyncCommand")))
       ELSE Suspended(fn, CallFn(fn), PyNone)

\* execute_async from the resumption of its await to `return self.result`
execute_async_resume(awaiting) ==
    LET a == IF awaiting.kind = "raise" THEN awaiting ELSE Await(awaiting.value)
    IN IF a.kind = "raise" THEN AsyncFailure(a.exc) ELSE a.value

\* caller c calls execute_async and is suspended at its await, or gets the
\* ValueError at once
SharedCall(c) ==
    /\ c \in active
    /\ frames[c].pc = "idle"
    /\ \E function \in {PyNone} \cup OwnOps(c) :
          LET e == execute_async_call(cmd_function, function)
          IN /\ cmd_function' = e.function
             /\ frames' = [frames EXCEPT ![c] =
                             IF e.out # PyNone
                             THEN [pc |-> "returned", function |-> function,
                                   awaiting |-> PyNone, ret |-> e.out]
                             ELSE [pc |-> "awaiting", function |-> function,
                                   awaiting |-> e.awaiting, ret |-> PyNone]]
    /\ UNCHANGED <<isconnected, active, result, last, gen, resultVars,
                   queryVars, routeVars>>

\* the operation caller c awaits finishes; the call stores and returns
SharedResume(c) ==
    /\ frames[c].pc = "awaiting"
    /\ LET r == execute_async_resume(frames[c].awaiting)
       IN /\ result' = r
          /\ frames' = [frames EXCEPT ![c] =
                          [pc |-> "returned", function |-> frames[c].function,
                           awaiting |-> frames[c].awaiting, ret |-> Returns(r)]]
          /\ last' = [op |-> "execute_async", caller |-> c, out |-> Returns(r)]
    /\ UNCHANGED <<isconnected, active, cmd_function, gen, resultVars,
                   queryVars, routeVars>>

\* caller c takes what its call returned
SharedTake(c) ==
    /\ c \in active
    /\ frames[c].pc = "returned"
    /\ frames' = [frames EXCEPT ![c] = NoFrame]
    /\ UNCHANGED <<isconnected, active, cmdVars, resultVars, queryVars, routeVars>>

\* an AsyncCommand constructed without an operation, held by two callers
SharedInit ==
    /\ cmd_function = PyNone
    /\ result = PyNone
    /\ last = Idle
    /\ gen = Idle
    /\ isconnected = FALSE
    /\ active = {1, 2}
    /\ frames = [c \in Callers |-> NoFrame]
    /\ QueryIdle
    /\ RouteIdle
    /\ self_r = Running(PyInt(0))
    /\ op_out = Idle

SharedNext ==
    \E c \in Callers : SharedCall(c) \/ SharedResume(c) \/ SharedTake(c)

SpecShared == SharedInit /\ [][SharedNext]_vars

\* the Result of the operation `function` itself, as execute_async gives it
ResultOf(function) ==
    IF function.does.kind = "raise" THEN AsyncFailure(function.does.exc)
    ELSE function.does.value

\* caller c's call has returned and had supplied its own operation
ReturnedOwn(c) ==
    /\ frames[c].pc = "returned"
    /\ frames[c].function # PyNone

(***************************************************************************)
(* C38: when two execute_async calls run concurrently on one shared        *)
(* AsyncCommand instance, each supplying its own operation, each caller    *)
(* receives the Result of its own operation (never the other caller's)     *)
(* under every interleaving at the await points, although the shared       *)
(* `result` field ends up holding whichever execution finished last.       *)
(***************************************************************************)
C38_EachCallerGetsOwnResult ==
    /\ \A c \in Callers :
          ReturnedOwn(c) => frames[c].ret = Returns(ResultOf(frames[c].function))
    /\ last # Idle => result = last.out.value

C38_Witness ==
    /\ ReturnedOwn(1)
    /\ ReturnedOwn(2)
    /\ last # Idle
    /\ last.caller = 1
    /\ cmd_function = Wrapper(frames[2].function)
    /\ frames[1].ret # frames[2].ret
    /\ result = frames[1].ret.value

====
